---- MODULE Spec2Model ----
(***************************************************************************)
(* Card collection and transfer core of the card-games repository:         *)
(*   - Pile   (event emitting pile, pile manager, part_013:119-447)         *)
(*   - Pile   (cardsCanBeAdded / cardsCanBeRemoved pile, part_013:453-526), *)
(*            written LegacyPile_* below                                    *)
(*   - Deck   (deck.manager.ts:15-87), a LegacyPile with a discard pile     *)
(*   - Hand   (hand.manager.ts:13-509)                                      *)
(*   - Table  (table.manager.ts:35-307), the START/COMPLETE transfer table  *)
(*   - Table  (table.manager.ts:357-686), requestCardTransfer, players     *)
(*   - Player (player.manager.ts:45-360), joining, piles, turns             *)
(*   - CardAnimationManager (part_012:42-427), the animation queue          *)
(* Arrays are JavaScript arrays: positions are 0-based, TLA+ sequences are  *)
(* 1-based, so position p is sequence index p + 1.                          *)
(***************************************************************************)
EXTENDS Integers, Sequences, FiniteSets, TLC

\* ------------------------------------------------------------------ bounds
NumCards == 3
MaxPileLen == 3
MaxCap == 2
MaxRequest == 2
NumTableCards == 2
NumListeners == 2
MaxHandCards == 2
MaxHandRequest == 1
TableCap == 1
MaxDraw == 2
MaxDeckTotal == 3
NumPlayers == 2
NumPileRefs == 2
MaxAnimations == 3
MaxSessionPlayers == 3
MaxTimers == 2
MaxMessages == 3
ReconnectAttempts == 2
MaxConnecting == 2
MaxHeartbeatsPending == 1
NumListItems == 2
MaxListItems == 3
MaxSetItems == 2
MaxScrollDelta == 2

\* ------------------------------------------------------------------- cards
\* Cards are the UNO cards of the card definitions: createUnoCard gives every
\* card suit NONE, id uno_<color>_<value>.  Card 1 and 2 are value 1 in two
\* colours, card 3 and 4 value 2 in two colours, and so on.
Cards == 1..NumCards

CardValue(c) == (c + 1) \div 2

CardSuit(c) == "none"

\* An optional argument (position?: number) is <<>> when absent, <<p>> when given.
None == <<>>

Some(x) == <<x>>

\* ------------------------------------------------------- array primitives
Min(a, b) == IF a < b THEN a ELSE b

\* Array.prototype.splice(start, deleteCount, ...items) for start >= 0.
SpliceStart(s, start) == IF start > Len(s) THEN Len(s) ELSE start

SpliceCount(s, start, deleteCount) == Min(deleteCount, Len(s) - SpliceStart(s, start))

SpliceRemoved(s, start, deleteCount) ==
  SubSeq(s, SpliceStart(s, start) + 1,
            SpliceStart(s, start) + SpliceCount(s, start, deleteCount))

SpliceArray(s, start, deleteCount, items) ==
  SubSeq(s, 1, SpliceStart(s, start)) \o items \o
  SubSeq(s, SpliceStart(s, start) + SpliceCount(s, start, deleteCount) + 1, Len(s))

\* The elements of a sequence, and how often a card occurs in it.
Elems(s) == {s[i] : i \in 1..Len(s)}

Count(s, c) == Cardinality({i \in 1..Len(s) : s[i] = c})

SameMultiset(s, t) == \A c \in Cards : Count(s, c) = Count(t, c)

RECURSIVE Reverse(_)
Reverse(s) == IF s = <<>> THEN <<>> ELSE Reverse(Tail(s)) \o <<Head(s)>>

\* All sequences over S of length at most n.
SeqsUpTo(S, n) == UNION {[1..k -> S] : k \in 0..n}

\* Sequences over S without repetition.
DistinctSeqs(S) == {s \in SeqsUpTo(S, Cardinality(S)) : \A i, j \in 1..Len(s) : i # j => s[i] # s[j]}

\* An emitted event: its name and the cards and positions it carries.
Event(type, cards, positions) == [type |-> type, cards |-> cards, positions |-> positions]

\* ============================================================================
\* Pile (pile manager): ordered cards, capacity, duplicate rule, events
\* ============================================================================
VARIABLES pileCards, pileConfig, pileLast, pilePrev

pileVars == <<pileCards, pileConfig, pileLast, pilePrev>>

\* PileConfig.maxCards is optional; the constructor defaults allowDuplicates to true.
PileConfigs ==
  [maxCards : {None} \cup {Some(n) : n \in 0..MaxCap}, allowDuplicates : BOOLEAN]

Pile_size(cards) == Len(cards)

Pile_isEmpty(cards) == Len(cards) = 0

Pile_hasCard(cards, cardId) == \E i \in 1..Len(cards) : cards[i] = cardId

\* this.config.maxCards ? this.cards.length >= this.config.maxCards : false
\* (an absent maxCards and a maxCards of 0 are both falsy).
Pile_isFull(cards, cfg) ==
  IF cfg.maxCards # None /\ cfg.maxCards[1] # 0
    THEN Len(cards) >= cfg.maxCards[1]
    ELSE FALSE

\* A mutant: canAddCard looks at the capacity only.
Pile_canAddCard_CapacityOnly(cards, cfg, card) ==
  IF Pile_isFull(cards, cfg) THEN FALSE ELSE TRUE

Pile_canAddCard(cards, cfg, card) ==
  IF Pile_isFull(cards, cfg) THEN FALSE
  ELSE IF ~cfg.allowDuplicates /\ Pile_hasCard(cards, card) THEN FALSE
  ELSE TRUE

\* A mutant: addCard inserts below the top card when no position is given.
Pile_addCard_BelowTop(cards, cfg, card, position) ==
  IF ~Pile_canAddCard(cards, cfg, card)
    THEN [ret |-> FALSE, cards |-> cards, events |-> <<>>]
    ELSE LET insertPosition == IF position = None
                                 THEN (IF Len(cards) > 0 THEN Len(cards) - 1 ELSE 0)
                                 ELSE position[1]
         IN [ret |-> TRUE,
             cards |-> SpliceArray(cards, insertPosition, 0, <<card>>),
             events |-> <<Event("cardAdded", <<card>>, <<insertPosition>>),
                          Event("pileChanged", <<>>, <<>>)>>]

Pile_addCard(cards, cfg, card, position) ==
  IF ~Pile_canAddCard(cards, cfg, card)
    THEN [ret |-> FALSE, cards |-> cards, events |-> <<>>]
    ELSE LET insertPosition == IF position = None THEN Len(cards) ELSE position[1]
         IN [ret |-> TRUE,
             cards |-> SpliceArray(cards, insertPosition, 0, <<card>>),
             events |-> <<Event("cardAdded", <<card>>, <<insertPosition>>),
                          Event("pileChanged", <<>>, <<>>)>>]

\* removeCard returns the removed card as ret = <<card>>, or null as ret = <<>>.
Pile_removeCard(cards, position) ==
  IF Pile_isEmpty(cards)
    THEN [ret |-> <<>>, cards |-> cards, events |-> <<>>]
    ELSE LET removePosition == IF position = None THEN Len(cards) - 1 ELSE position[1]
             removed == SpliceRemoved(cards, removePosition, 1)
         IN [ret |-> removed,
             cards |-> SpliceArray(cards, removePosition, 1, <<>>),
             events |-> IF removed # <<>>
                          THEN <<Event("cardRemoved", removed, <<removePosition>>),
                                 Event("pileChanged", <<>>, <<>>)>>
                          ELSE <<>>]

\* A mutant: the swap loses one of the two cards (no temporary).
Swap_Overwrite(s, i, j) == [s EXCEPT ![i + 1] = s[j + 1]]

\* [this.cards[i], this.cards[j]] = [this.cards[j], this.cards[i]]
Swap(s, i, j) == [s EXCEPT ![i + 1] = s[j + 1], ![j + 1] = s[i + 1]]

\* The Fisher-Yates loop from index i down to 1; Math.floor(Math.random() * (i + 1))
\* is any j in 0..i.  The set of arrays the loop can end with.
RECURSIVE ShuffleLoop(_, _)
ShuffleLoop(s, i) ==
  IF i > 0
    THEN UNION {ShuffleLoop(Swap(s, i, j), i - 1) : j \in 0..i}
    ELSE {s}

Pile_shuffle(cards) == ShuffleLoop(cards, Len(cards) - 1)

PileOp(op, arg, pos, ok, out, pre, events) ==
  [op |-> op, arg |-> arg, pos |-> pos, ok |-> ok, out |-> out, pre |-> pre,
   events |-> events]

\* What the following call needs of the call before: whether it was an addCard(card)
\* without a position that succeeded, with the card and the cards before it.
PileBrief(last) ==
  IF last.op = "addCard" /\ last.ok /\ last.pos = None
    THEN [added |-> TRUE, card |-> last.arg, pre |-> last.pre]
    ELSE [added |-> FALSE, card |-> <<>>, pre |-> <<>>]

\* Positions a caller passes: none, or any index up to one past the end.
PilePositions == {None} \cup {Some(p) : p \in 0..MaxPileLen}

PileInit ==
  /\ pileCards = <<>>
  /\ pileConfig \in PileConfigs
  /\ pileLast = PileOp("new", <<>>, None, TRUE, <<>>, <<>>, <<>>)
  /\ pilePrev = PileBrief(pileLast)

PileAddCard ==
  \E card \in Cards, position \in PilePositions :
    /\ Len(pileCards) < MaxPileLen
    /\ LET r == Pile_addCard(pileCards, pileConfig, card, position)
       IN /\ pileCards' = r.cards
          /\ pileLast' = PileOp("addCard", <<card>>, position, r.ret, <<>>, pileCards, r.events)
    /\ pilePrev' = PileBrief(pileLast)
    /\ UNCHANGED pileConfig

PileRemoveCard ==
  \E position \in PilePositions :
    /\ LET r == Pile_removeCard(pileCards, position)
       IN /\ pileCards' = r.cards
          /\ pileLast' = PileOp("removeCard", <<>>, position, r.ret # <<>>, r.ret, pileCards, r.events)
    /\ pilePrev' = PileBrief(pileLast)
    /\ UNCHANGED pileConfig

PileShuffle ==
  \E shuffled \in Pile_shuffle(pileCards) :
    /\ pileCards' = shuffled
    /\ pileLast' = PileOp("shuffle", <<>>, None, TRUE, <<>>, pileCards,
                          <<Event("pileShuffled", <<>>, <<>>), Event("pileChanged", <<>>, <<>>)>>)
    /\ pilePrev' = PileBrief(pileLast)
    /\ UNCHANGED pileConfig

PileIdle ==
  /\ pileCards = <<>>
  /\ pileConfig = [maxCards |-> None, allowDuplicates |-> TRUE]
  /\ pileLast = PileOp("new", <<>>, None, TRUE, <<>>, <<>>, <<>>)
  /\ pilePrev = PileBrief(pileLast)

\* ============================================================================
\* Pile (cardsCanBeAdded, cardsCanBeRemoved): push and pop, contains, findCard
\* ============================================================================
LegacyPile_addCard(cards, card) == Append(cards, card)

LegacyPile_addCards(cards, added) == cards \o added

\* this.cards.pop() || null: ret is <<card>> or, for null, <<>>.
LegacyPile_removeCard(cards) ==
  IF Len(cards) = 0
    THEN [ret |-> <<>>, cards |-> cards]
    ELSE [ret |-> <<cards[Len(cards)]>>, cards |-> SubSeq(cards, 1, Len(cards) - 1)]

\* for (i = 0; i < count && this.cards.length > 0; i++) removed.push(removeCard())
RECURSIVE LegacyPile_removeCards(_, _)
LegacyPile_removeCards(cards, count) ==
  IF count > 0 /\ Len(cards) > 0
    THEN LET one == LegacyPile_removeCard(cards)
             rest == LegacyPile_removeCards(one.cards, count - 1)
         IN [ret |-> one.ret \o rest.ret, cards |-> rest.cards]
    ELSE [ret |-> <<>>, cards |-> cards]

LegacyPile_contains(cards, cardId) == \E i \in 1..Len(cards) : cards[i] = cardId

LegacyPile_size(cards) == Len(cards)

\* ============================================================================
\* Hand (hand manager): cards, selected cards, capacity, selection mode
\* ============================================================================
VARIABLES handCards, selectedCards, handConfig, handLast

handVars == <<handCards, selectedCards, handConfig, handLast>>

\* mergeWithDefaults: maxCards, canPlay and allowMultiSelect are what the
\* operations read of the configuration.
HandConfigs == [maxCards : {MaxHandCards}, canPlay : BOOLEAN, allowMultiSelect : BOOLEAN]

\* c.id === card.id || (c.suit === card.suit && c.value === card.value)
Hand_matches(c, card) ==
  c = card \/ (CardSuit(c) = CardSuit(card) /\ CardValue(c) = CardValue(card))

\* Array.prototype.findIndex with the predicate above: a 0-based index, or -1.
Hand_findIndex(s, card) ==
  IF \E i \in 1..Len(s) : Hand_matches(s[i], card)
    THEN (CHOOSE i \in 1..Len(s) :
            Hand_matches(s[i], card) /\ \A j \in 1..(i - 1) : ~Hand_matches(s[j], card)) - 1
    ELSE -1

Hand_some(s, card) == \E i \in 1..Len(s) : Hand_matches(s[i], card)

\* updateState(): the counters the operations read follow the cards.
Hand_updateState(cards, cfg) ==
  [cardCount |-> Len(cards), isFull |-> Len(cards) >= cfg.maxCards, isEmpty |-> Len(cards) = 0]

\* An event a hand emits, with the hand and the selection as they are when the
\* listeners are called.
HandEvent(type, cards, h) ==
  [type |-> type, cards |-> cards, handCards |-> h.cards, selected |-> h.selected]

Hand_addCard(h, cfg, card) ==
  IF Hand_updateState(h.cards, cfg).isFull
    THEN [ret |-> FALSE, h |-> h, events |-> <<>>]
    ELSE LET h1 == [h EXCEPT !.cards = Append(h.cards, card)]
         IN [ret |-> TRUE, h |-> h1, events |-> <<HandEvent("hand:cardAdded", <<card>>, h1)>>]

RECURSIVE Hand_addCardsLoop(_, _, _)
Hand_addCardsLoop(h, input, i) ==
  IF i > Len(input)
    THEN [h |-> h, events |-> <<>>]
    ELSE LET h1 == [h EXCEPT !.cards = Append(h.cards, input[i])]
             rest == Hand_addCardsLoop(h1, input, i + 1)
         IN [h |-> rest.h,
             events |-> <<HandEvent("hand:cardAdded", <<input[i]>>, h1)>> \o rest.events]

Hand_addCards(h, cfg, input) ==
  IF Hand_updateState(h.cards, cfg).cardCount + Len(input) > cfg.maxCards
    THEN [ret |-> FALSE, h |-> h, events |-> <<>>]
    ELSE LET loop == Hand_addCardsLoop(h, input, 1)
         IN [ret |-> TRUE, h |-> loop.h, events |-> loop.events]

Hand_deselectCard(h, card) ==
  LET selectedIndex == Hand_findIndex(h.selected, card)
  IN IF selectedIndex = -1
       THEN [ret |-> FALSE, h |-> h, events |-> <<>>]
       ELSE LET h1 == [h EXCEPT !.selected = SpliceArray(h.selected, selectedIndex, 1, <<>>)]
            IN [ret |-> TRUE, h |-> h1,
                events |-> <<HandEvent("hand:selectionChanged", h1.selected, h1)>>]

\* A mutant: removeCard emits the card-removed event before it deselects the card.
Hand_removeCard_EmitFirst(h, cfg, card) ==
  LET cardIndex == Hand_findIndex(h.cards, card)
  IN IF cardIndex = -1
       THEN [ret |-> FALSE, h |-> h, removed |-> <<>>, events |-> <<>>]
       ELSE LET removedCard == h.cards[cardIndex + 1]
                h1 == [h EXCEPT !.cards = SpliceArray(h.cards, cardIndex, 1, <<>>)]
                d == Hand_deselectCard(h1, removedCard)
            IN [ret |-> TRUE, h |-> d.h, removed |-> <<removedCard>>,
                events |-> <<HandEvent("hand:cardRemoved", <<removedCard>>, h1)>> \o d.events]

Hand_removeCard(h, cfg, card) ==
  LET cardIndex == Hand_findIndex(h.cards, card)
  IN IF cardIndex = -1
       THEN [ret |-> FALSE, h |-> h, removed |-> <<>>, events |-> <<>>]
       ELSE LET removedCard == h.cards[cardIndex + 1]
                h1 == [h EXCEPT !.cards = SpliceArray(h.cards, cardIndex, 1, <<>>)]
                d == Hand_deselectCard(h1, removedCard)
            IN [ret |-> TRUE, h |-> d.h, removed |-> <<removedCard>>,
                events |-> d.events \o <<HandEvent("hand:cardRemoved", <<removedCard>>, d.h)>>]

\* The for...of loop of removeCards from 0-based index i on.  With aliased set the
\* array iterated is the hand's own selectedCards array (playSelectedCards hands it
\* to playCards), which deselectCard splices while the loop runs; the iterator
\* reads the array's current length and element at each step.
RECURSIVE Hand_removeCardsLoop(_, _, _, _)
Hand_removeCardsLoop(h, input, i, aliased) ==
  LET cards == IF aliased THEN h.selected ELSE input
  IN IF i >= Len(cards)
       THEN [h |-> h, removed |-> <<>>, events |-> <<>>]
       ELSE LET card == cards[i + 1]
                cardIndex == Hand_findIndex(h.cards, card)
            IN IF cardIndex = -1
                 THEN Hand_removeCardsLoop(h, input, i + 1, aliased)
                 ELSE LET removedCard == h.cards[cardIndex + 1]
                          h1 == [h EXCEPT !.cards = SpliceArray(h.cards, cardIndex, 1, <<>>)]
                          d == Hand_deselectCard(h1, removedCard)
                          rest == Hand_removeCardsLoop(d.h, input, i + 1, aliased)
                      IN [h |-> rest.h, removed |-> <<removedCard>> \o rest.removed,
                          events |-> d.events
                                     \o <<HandEvent("hand:cardRemoved", <<removedCard>>, d.h)>>
                                     \o rest.events]

\* return removedCards.length === cards.length, cards being the array as it is then.
Hand_removeCards(h, cfg, input, aliased) ==
  LET loop == Hand_removeCardsLoop(h, input, 0, aliased)
      cards == IF aliased THEN loop.h.selected ELSE input
  IN [ret |-> Len(loop.removed) = Len(cards), h |-> loop.h, removed |-> loop.removed,
      events |-> loop.events]

Hand_clear(h) ==
  LET h1 == [cards |-> <<>>, selected |-> <<>>]
  IN [ret |-> TRUE, h |-> h1, removed |-> h.cards,
      events |-> [i \in 1..Len(h.cards) |-> HandEvent("hand:cardRemoved", <<h.cards[i]>>, h1)]]

\* A mutant: the previous selection is kept when multi-select is disabled.
Hand_selectCard_KeepPrevious(h, cfg, card) ==
  IF ~cfg.canPlay THEN [ret |-> FALSE, h |-> h, events |-> <<>>]
  ELSE IF ~Hand_some(h.cards, card) THEN [ret |-> FALSE, h |-> h, events |-> <<>>]
  ELSE IF Hand_some(h.selected, card) THEN [ret |-> FALSE, h |-> h, events |-> <<>>]
  ELSE LET h1 == [h EXCEPT !.selected = Append(h.selected, card)]
       IN [ret |-> TRUE, h |-> h1,
           events |-> <<HandEvent("hand:selectionChanged", h1.selected, h1)>>]

Hand_selectCard(h, cfg, card) ==
  IF ~cfg.canPlay THEN [ret |-> FALSE, h |-> h, events |-> <<>>]
  ELSE IF ~Hand_some(h.cards, card) THEN [ret |-> FALSE, h |-> h, events |-> <<>>]
  ELSE IF Hand_some(h.selected, card) THEN [ret |-> FALSE, h |-> h, events |-> <<>>]
  ELSE LET base == IF ~cfg.allowMultiSelect /\ Len(h.selected) > 0 THEN <<>> ELSE h.selected
           h1 == [h EXCEPT !.selected = Append(base, card)]
       IN [ret |-> TRUE, h |-> h1,
           events |-> <<HandEvent("hand:selectionChanged", h1.selected, h1)>>]

Hand_clearSelection(h) ==
  LET h1 == [h EXCEPT !.selected = <<>>]
  IN [ret |-> TRUE, h |-> h1, events |-> <<HandEvent("hand:selectionChanged", <<>>, h1)>>]

Hand_toggleCardSelection(h, cfg, card) ==
  IF Hand_some(h.selected, card) THEN Hand_deselectCard(h, card) ELSE Hand_selectCard(h, cfg, card)

\* playCards(cards): emit PLAY_CARDS; emit returns false when nobody listens, and a
\* listener may clear playEvent.cancellable.  listened and cancelled are the two.
Hand_playCards(h, cfg, input, aliased, listened, cancelled) ==
  IF ~cfg.canPlay \/ Len(input) = 0
    THEN [ret |-> FALSE, h |-> h, removed |-> <<>>, events |-> <<>>]
  ELSE IF ~(\A i \in 1..Len(input) : Hand_some(h.cards, input[i]))
    THEN [ret |-> FALSE, h |-> h, removed |-> <<>>, events |-> <<>>]
  ELSE LET play == HandEvent("hand:playCards", input, h)
       IN IF listened /\ ~cancelled
            THEN LET r == Hand_removeCards(h, cfg, input, aliased)
                     c == Hand_clearSelection(r.h)
                 IN [ret |-> TRUE, h |-> c.h, removed |-> r.removed,
                     events |-> <<play>> \o r.events \o c.events]
            ELSE [ret |-> FALSE, h |-> h, removed |-> <<>>, events |-> <<play>>]

Hand_playSelectedCards(h, cfg, listened, cancelled) ==
  IF ~cfg.canPlay \/ Len(h.selected) = 0
    THEN [ret |-> FALSE, h |-> h, removed |-> <<>>, events |-> <<>>]
    ELSE Hand_playCards(h, cfg, h.selected, TRUE, listened, cancelled)

HandState == [cards |-> handCards, selected |-> selectedCards]

\* The card-removed events of a call as the listeners saw them: the card, and the
\* selection when the event was delivered.
Removals(events) ==
  LET removed == SelectSeq(events, LAMBDA e : e.type = "hand:cardRemoved")
  IN [i \in 1..Len(removed) |-> [card |-> removed[i].cards[1], selected |-> removed[i].selected]]

\* The record of the last call: the operation, its card when it takes one card,
\* what it returned, how many cards were selected when it was called, the hand as
\* it was when it was called, and the card-removed events it delivered.
HandOp(op, card, ret, selectedBefore, before, removals) ==
  [op |-> op, card |-> card, ret |-> ret, selectedBefore |-> selectedBefore,
   before |-> before, removals |-> removals]

NoHand == [cards |-> <<>>, selected |-> <<>>]

\* The card arrays handed to addCards, removeCards and playCards.
HandRequests == SeqsUpTo(Cards, MaxHandRequest)

\* What the PLAY_CARDS listeners can do: nobody listens (emit returns false), a
\* listener clears playEvent.cancellable, or the listeners let the play through.
PlayOutcomes == {<<FALSE, FALSE>>, <<TRUE, TRUE>>, <<TRUE, FALSE>>}

\* initializeState: no card selected; the hand holds no cards.
HandInit ==
  /\ handCards = <<>>
  /\ selectedCards = <<>>
  /\ handConfig \in HandConfigs
  /\ handLast = HandOp("new", None, TRUE, 0, NoHand, <<>>)

HandIdle ==
  /\ handCards = <<>>
  /\ selectedCards = <<>>
  /\ handConfig = [maxCards |-> MaxHandCards, canPlay |-> TRUE, allowMultiSelect |-> TRUE]
  /\ handLast = HandOp("new", None, TRUE, 0, NoHand, <<>>)

\* A call's effect on the hand and the record of the call.
HandStep(op, card, r) ==
  /\ handCards' = r.h.cards
  /\ selectedCards' = r.h.selected
  /\ handLast' = HandOp(op, card, r.ret, Len(selectedCards),
                      IF op = "playSelectedCards" THEN HandState ELSE NoHand,
                      Removals(r.events))
  /\ UNCHANGED handConfig

HandAddCard ==
  \E card \in Cards : HandStep("addCard", Some(card), Hand_addCard(HandState, handConfig, card))

HandAddCards ==
  \E input \in HandRequests :
    HandStep("addCards", None, Hand_addCards(HandState, handConfig, input))

HandRemoveCard ==
  \E card \in Cards :
    HandStep("removeCard", Some(card), Hand_removeCard(HandState, handConfig, card))

HandRemoveCards ==
  \E input \in HandRequests :
    HandStep("removeCards", None, Hand_removeCards(HandState, handConfig, input, FALSE))

HandClear == HandStep("clear", None, Hand_clear(HandState))

HandSelectCard ==
  \E card \in Cards :
    HandStep("selectCard", Some(card), Hand_selectCard(HandState, handConfig, card))

HandDeselectCard ==
  \E card \in Cards :
    HandStep("deselectCard", Some(card), Hand_deselectCard(HandState, card))

HandToggleCardSelection ==
  \E card \in Cards :
    HandStep("toggleCardSelection", Some(card),
             Hand_toggleCardSelection(HandState, handConfig, card))

HandClearSelection == HandStep("clearSelection", None, Hand_clearSelection(HandState))

HandPlayCards ==
  \E input \in HandRequests, o \in PlayOutcomes :
    HandStep("playCards", None, Hand_playCards(HandState, handConfig, input, FALSE, o[1], o[2]))

HandPlaySelectedCards ==
  \E o \in PlayOutcomes :
    HandStep("playSelectedCards", None, Hand_playSelectedCards(HandState, handConfig, o[1], o[2]))

\* ============================================================================
\* Table: requestTransfer, handleStartTransfer, validateTransfer, executeTransfer
\* ============================================================================
VARIABLES tablePiles, tableLast

tableVars == <<tablePiles, tableLast>>

\* The piles handed to the table.  A pile is one of the two Pile classes, "legacy"
\* (contains, findCard(cardId), removeCard(), addCards) or "evented" (hasCard,
\* findCard(predicate), removeSpecificCard(card), removeCard(position?), addCards),
\* or a "hand" (the legacy Pile's contains and findCard, its own removeCard(card)
\* and addCards).
PileIds == {"deck", "hand"}

PileKinds == {"legacy", "evented", "hand"}

DefaultPileConfig == [maxCards |-> None, allowDuplicates |-> TRUE]

\* The configurations of the table's event emitting piles: the default, and a
\* capacity with the duplicate rule on.
TablePileConfigs == {DefaultPileConfig, [maxCards |-> Some(TableCap), allowDuplicates |-> FALSE]}

\* The configuration of a hand on the table: its maxCards.
TableHandConfig == [maxCards |-> Some(TableCap), allowDuplicates |-> TRUE]

ConfigsOfKind(kind) ==
  IF kind = "evented" THEN TablePileConfigs
  ELSE IF kind = "hand" THEN {TableHandConfig}
  ELSE {DefaultPileConfig}

\* The cards the table's piles hold and requests name.
TableCards == 1..NumTableCards

\* 'contains' in source, 'findCard' in source, 'removeSpecificCard' in source
HasContains(kind) == kind \in {"legacy", "hand"}

HasFindCard(kind) == kind \in {"legacy", "evented", "hand"}

HasRemoveSpecificCard(kind) == kind = "evented"

\* Pile.addCards(cards) of the event emitting pile, position absent: each card that
\* passes canAddCard is spliced in at insertPosition + index (index in the input).
RECURSIVE Pile_addCardsLoop(_, _, _, _, _)
Pile_addCardsLoop(cards, cfg, input, index, insertPosition) ==
  IF index >= Len(input)
    THEN [cards |-> cards, added |-> <<>>]
    ELSE LET card == input[index + 1]
         IN IF Pile_canAddCard(cards, cfg, card)
              THEN LET rest == Pile_addCardsLoop(
                                 SpliceArray(cards, insertPosition + index, 0, <<card>>),
                                 cfg, input, index + 1, insertPosition)
                   IN [cards |-> rest.cards, added |-> <<card>> \o rest.added]
              ELSE Pile_addCardsLoop(cards, cfg, input, index + 1, insertPosition)

Pile_addCards(cards, cfg, input, position) ==
  LET insertPosition == IF position = None THEN Len(cards) ELSE position[1]
      loop == Pile_addCardsLoop(cards, cfg, input, 0, insertPosition)
  IN [ret |-> loop.added, cards |-> loop.cards,
      events |-> IF Len(loop.added) > 0
                   THEN <<Event("cardsAdded", loop.added,
                                [i \in 1..Len(loop.added) |-> insertPosition + i - 1]),
                          Event("pileChanged", <<>>, <<>>)>>
                   ELSE <<>>]

\* The card arrays handed to addCards.
PileRequests == SeqsUpTo(Cards, MaxRequest)

PileAddCards ==
  \E input \in PileRequests, position \in PilePositions :
    /\ Len(pileCards) + Len(input) <= MaxPileLen
    /\ LET r == Pile_addCards(pileCards, pileConfig, input, position)
       IN /\ pileCards' = r.cards
          /\ pileLast' = PileOp("addCards", input, position, TRUE, r.ret, pileCards, r.events)
    /\ pilePrev' = PileBrief(pileLast)
    /\ UNCHANGED pileConfig

\* addCard and addCards on a pile that refuses duplicates, recorded for what a
\* refusal must leave alone: a refused addCard is recorded with the pile before it
\* and what it emitted, an accepted one with its card only.
AddingAddCard ==
  \E card \in Cards, position \in PilePositions :
    /\ Len(pileCards) < MaxPileLen
    /\ LET r == Pile_addCard(pileCards, pileConfig, card, position)
       IN /\ pileCards' = r.cards
          /\ pileLast' = IF r.ret
                           THEN PileOp("addCard", <<card>>, None, TRUE, <<>>, <<>>, <<>>)
                           ELSE PileOp("addCard", <<card>>, position, FALSE, <<>>,
                                       pileCards, r.events)
    /\ UNCHANGED <<pileConfig, pilePrev>>

AddingAddCards ==
  \E input \in PileRequests, position \in PilePositions :
    /\ Len(pileCards) + Len(input) <= MaxPileLen
    /\ pileCards' = Pile_addCards(pileCards, pileConfig, input, position).cards
    /\ pileLast' = PileOp("addCards", <<>>, None, TRUE, <<>>, <<>>, <<>>)
    /\ UNCHANGED <<pileConfig, pilePrev>>

\* target.addCards(removedCards) on each kind of pile.
Target_addCards(pile, added) ==
  IF pile.kind = "legacy"
    THEN [pile EXCEPT !.cards = LegacyPile_addCards(pile.cards, added)]
  ELSE IF pile.kind = "hand"
    THEN [pile EXCEPT !.cards =
            Hand_addCards([cards |-> pile.cards, selected |-> <<>>],
                          [maxCards |-> pile.config.maxCards[1]], added).h.cards]
  ELSE [pile EXCEPT !.cards = Pile_addCards(pile.cards, pile.config, added, None).cards]

\* source.removeCard() with no argument, the fallback of executeTransfer.  The
\* legacy Pile pops.  A hand's removeCard(card) reads card.id of the missing
\* argument as soon as findIndex visits a card: it throws unless the hand is empty,
\* and returns false then.
Source_removeCard(pile) ==
  IF pile.kind = "hand"
    THEN [thrown |-> pile.cards # <<>>, ret |-> None, cards |-> pile.cards]
    ELSE LET one == LegacyPile_removeCard(pile.cards)
         IN [thrown |-> FALSE, ret |-> one.ret, cards |-> one.cards]

\* EventEmitter.emit: every attached listener is called, in attachment order,
\* before emit returns; what each listener has been handed.
EmitTo(received, event) == [l \in DOMAIN received |-> Append(received[l], event)]

\* A mutant: validation passes when some requested card is in source.
Table_validateTransfer_Some(piles, source, cards) ==
  \/ Len(cards) = 0
  \/ \E i \in 1..Len(cards) :
       IF HasContains(piles[source].kind)
         THEN LegacyPile_contains(piles[source].cards, cards[i])
         ELSE TRUE

\* event.cards.every(card => 'contains' in source ? source.contains(card.id) : true)
Table_validateTransfer(piles, source, cards) ==
  \A i \in 1..Len(cards) :
    IF HasContains(piles[source].kind)
      THEN LegacyPile_contains(piles[source].cards, cards[i])
      ELSE TRUE

\* The removal loop of executeTransfer over event.cards from index i on.
\*  - A source with findCard and removeSpecificCard: findCard(card.id) hands a
\*    string to Array.prototype.find, which throws a TypeError for a predicate
\*    that is not callable, whatever the array holds: the first card throws.
\*  - Otherwise the fallback: source.removeCard(), kept when it is not null.
RECURSIVE Table_removeLoop(_, _, _)
Table_removeLoop(sourcePile, cards, i) ==
  IF i > Len(cards)
    THEN [thrown |-> FALSE, removed |-> <<>>, cards |-> sourcePile.cards]
    ELSE IF HasFindCard(sourcePile.kind) /\ HasRemoveSpecificCard(sourcePile.kind)
      THEN [thrown |-> TRUE, removed |-> <<>>, cards |-> sourcePile.cards]
      ELSE LET one == Source_removeCard(sourcePile)
           IN IF one.thrown
                THEN [thrown |-> TRUE, removed |-> <<>>, cards |-> one.cards]
                ELSE LET rest == Table_removeLoop([sourcePile EXCEPT !.cards = one.cards],
                                                  cards, i + 1)
                     IN [thrown |-> rest.thrown, removed |-> one.ret \o rest.removed,
                         cards |-> rest.cards]

\* try { remove each card; target.addCards(removedCards); emit COMPLETE_TRANSFER;
\* return true } catch { emit CANCEL_TRANSFER; return false }
Table_executeTransfer(piles, source, cards, target) ==
  LET loop == Table_removeLoop(piles[source], cards, 1)
      afterRemove == [piles EXCEPT ![source].cards = loop.cards]
      afterAdd == [afterRemove EXCEPT
                     ![target] = Target_addCards(afterRemove[target], loop.removed)]
  IN IF loop.thrown
       THEN [ret |-> FALSE, piles |-> afterRemove, removed |-> loop.removed,
             events |-> <<Event("table:cancelTransfer", cards, <<>>)>>]
       ELSE [ret |-> TRUE, piles |-> afterAdd, removed |-> loop.removed,
             events |-> <<Event("table:completeTransfer", loop.removed, <<>>)>>]

\* emit(START_TRANSFER) runs handleStartTransfer, which clears event.cancellable and
\* emits ACTION_BLOCKED when validateTransfer fails; then executeTransfer runs if
\* event.cancellable is still set.
Table_requestTransfer(piles, source, cards, target) ==
  LET start == Event("table:startTransfer", cards, <<>>)
  IN IF ~Table_validateTransfer(piles, source, cards)
       THEN [ret |-> FALSE, piles |-> piles, removed |-> <<>>,
             events |-> <<start, Event("table:actionBlocked", cards, <<>>)>>]
       ELSE LET done == Table_executeTransfer(piles, source, cards, target)
            IN [ret |-> done.ret, piles |-> done.piles, removed |-> done.removed,
                events |-> <<start>> \o done.events]

\* The events of one type in a call's emissions.
EventsOfType(events, type) == SelectSeq(events, LAMBDA e : e.type = type)

\* What the listeners attached to the completion event were handed during a call.
RECURSIVE Deliver(_, _)
Deliver(received, events) ==
  IF events = <<>> THEN received
  ELSE Deliver(EmitTo(received, Head(events)), Tail(events))

Listeners == 1..NumListeners

TableOp(op, source, cards, target, ret, pre, events) ==
  [op |-> op, source |-> source, cards |-> cards, target |-> target, ret |-> ret,
   pre |-> pre, events |-> events,
   received |-> Deliver([l \in Listeners |-> <<>>],
                        EventsOfType(events, "table:completeTransfer"))]

\* A pile as its class lets it be: no more cards than its capacity.
PileFits(pile) ==
  (pile.config.maxCards # None /\ pile.config.maxCards[1] # 0) =>
    Len(pile.cards) <= pile.config.maxCards[1]

\* The piles start with pairwise different cards, each in at most one pile.
TableInit ==
  /\ \E s \in DistinctSeqs(TableCards) : \E k \in 0..Len(s) :
     \E kinds \in [PileIds -> PileKinds] :
     \E cfgs \in [PileIds -> TablePileConfigs \cup {TableHandConfig}] :
       /\ \A p \in PileIds : cfgs[p] \in ConfigsOfKind(kinds[p])
       /\ tablePiles = [p \in PileIds |->
                          [kind |-> kinds[p],
                           config |-> cfgs[p],
                           cards |-> IF p = "deck" THEN SubSeq(s, 1, k)
                                     ELSE SubSeq(s, k + 1, Len(s))]]
       /\ \A p \in PileIds : PileFits(tablePiles[p])
  /\ tableLast = TableOp("new", "deck", <<>>, "deck", FALSE,
                         [p \in PileIds |-> tablePiles[p].cards], <<>>)

\* The card arrays handed to requestTransfer: up to MaxRequest cards, no card twice.
TableRequests == {s \in DistinctSeqs(TableCards) : Len(s) <= MaxRequest}

TableRequestTransfer ==
  \E source \in PileIds, target \in PileIds, cards \in TableRequests :
    LET r == Table_requestTransfer(tablePiles, source, cards, target)
    IN /\ tablePiles' = r.piles
       /\ tableLast' = TableOp("requestTransfer", source, cards, target, r.ret,
                               [p \in PileIds |-> tablePiles[p].cards], r.events)

\* peek(): the last card of either Pile class, null on an empty pile.
Pile_peek(cards) == IF Len(cards) = 0 THEN None ELSE Some(cards[Len(cards)])

\* Player.drawCards(action) with no action.cards, both piles registered: the top of
\* the source, when there is one, is the request; CARDS_DRAWN follows a success.
Player_drawCards(piles, source, target) ==
  LET topCard == Pile_peek(piles[source].cards)
      cardsToDraw == topCard
      r == Table_requestTransfer(piles, source, cardsToDraw, target)
  IN [ret |-> r.ret, piles |-> r.piles, cards |-> cardsToDraw,
      events |-> r.events \o (IF r.ret THEN <<Event("player:cardsDrawn", cardsToDraw, <<>>)>>
                              ELSE <<>>)]

PlayerDrawCards ==
  \E source \in PileIds, target \in PileIds :
    LET r == Player_drawCards(tablePiles, source, target)
    IN /\ tablePiles' = r.piles
       /\ tableLast' = TableOp("draw", source, r.cards, target, r.ret,
                               [p \in PileIds |-> tablePiles[p].cards], r.events)

TableIdle ==
  /\ tablePiles = [p \in PileIds |->
                     [kind |-> "legacy", config |-> DefaultPileConfig, cards |-> <<>>]]
  /\ tableLast = TableOp("new", "deck", <<>>, "deck", FALSE,
                         [p \in PileIds |-> <<>>], <<>>)

\* ----------------------------------------------------------------------------
\* requestTransfer when a listener of the target's card-added event throws: the
\* emitter does not catch, so the exception leaves target.addCards.
\* ----------------------------------------------------------------------------

\* target.addCards(removedCards) with such a listener.  The legacy Pile emits
\* nothing.  The event emitting Pile has spliced every accepted card in when it
\* emits CARDS_ADDED.  A hand emits CARD_ADDED right after pushing the first card.
Target_addCardsThrowing(pile, added) ==
  IF pile.kind = "legacy"
    THEN [thrown |-> FALSE, pile |-> Target_addCards(pile, added)]
  ELSE IF pile.kind = "hand"
    THEN IF Len(added) > 0
            /\ Hand_addCards([cards |-> pile.cards, selected |-> <<>>],
                             [maxCards |-> pile.config.maxCards[1]], added).ret
           THEN [thrown |-> TRUE, pile |-> [pile EXCEPT !.cards = Append(@, added[1])]]
           ELSE [thrown |-> FALSE, pile |-> Target_addCards(pile, added)]
  ELSE [thrown |-> Len(Pile_addCards(pile.cards, pile.config, added, None).ret) > 0,
        pile |-> Target_addCards(pile, added)]

\* A mutant: the catch block puts the piles back as they were.
Table_executeTransferThrowing_Rollback(piles, source, cards, target) ==
  LET loop == Table_removeLoop(piles[source], cards, 1)
      afterRemove == [piles EXCEPT ![source].cards = loop.cards]
      add == Target_addCardsThrowing(afterRemove[target], loop.removed)
      afterAdd == [afterRemove EXCEPT ![target] = add.pile]
  IN IF loop.thrown \/ add.thrown
       THEN [ret |-> FALSE, piles |-> piles,
             removed |-> loop.removed, thrown |-> TRUE,
             events |-> <<Event("table:cancelTransfer", cards, <<>>)>>]
       ELSE [ret |-> TRUE, piles |-> afterAdd, removed |-> loop.removed, thrown |-> FALSE,
             events |-> <<Event("table:completeTransfer", loop.removed, <<>>)>>]

\* executeTransfer: an exception of the removal loop or of target.addCards lands in
\* the catch block, which emits CANCEL_TRANSFER and returns false; the piles stay
\* as the exception left them.
Table_executeTransferThrowing(piles, source, cards, target) ==
  LET loop == Table_removeLoop(piles[source], cards, 1)
      afterRemove == [piles EXCEPT ![source].cards = loop.cards]
      add == Target_addCardsThrowing(afterRemove[target], loop.removed)
      afterAdd == [afterRemove EXCEPT ![target] = add.pile]
  IN IF loop.thrown \/ add.thrown
       THEN [ret |-> FALSE, piles |-> IF loop.thrown THEN afterRemove ELSE afterAdd,
             removed |-> loop.removed, thrown |-> TRUE,
             events |-> <<Event("table:cancelTransfer", cards, <<>>)>>]
       ELSE [ret |-> TRUE, piles |-> afterAdd, removed |-> loop.removed, thrown |-> FALSE,
             events |-> <<Event("table:completeTransfer", loop.removed, <<>>)>>]

Table_requestTransferThrowing(piles, source, cards, target) ==
  LET start == Event("table:startTransfer", cards, <<>>)
  IN IF ~Table_validateTransfer(piles, source, cards)
       THEN [ret |-> FALSE, piles |-> piles, removed |-> <<>>, thrown |-> FALSE,
             events |-> <<start, Event("table:actionBlocked", cards, <<>>)>>]
       ELSE LET done == Table_executeTransferThrowing(piles, source, cards, target)
            IN [ret |-> done.ret, piles |-> done.piles, removed |-> done.removed,
                thrown |-> done.thrown, events |-> <<start>> \o done.events]

\* The record of such a call: what it returned and emitted, whether an exception
\* reached the catch block, the cards taken from the source, the source before.
ThrowingOp(op, source, r, pre) ==
  [op |-> op, source |-> source, ret |-> r.ret, events |-> r.events,
   thrown |-> r.thrown, removed |-> r.removed, pre |-> pre]

TableRequestTransferThrowing ==
  \E source \in PileIds, target \in PileIds, cards \in TableRequests :
    LET r == Table_requestTransferThrowing(tablePiles, source, cards, target)
    IN /\ tablePiles' = r.piles
       /\ tableLast' = ThrowingOp("requestTransfer", source, r, tablePiles[source].cards)

\* ----------------------------------------------------------------------------
\* Single-card transfers: Pile.transferCardTo / transferCardsTo of the event
\* emitting pile and requestCardTransfer of the second Table class.
\* ----------------------------------------------------------------------------

\* this.cards.findIndex(c => c.id === cardId): the 0-based index, or -1.
Pile_findCardIndex(cards, cardId) ==
  IF \E i \in 1..Len(cards) : cards[i] = cardId
    THEN (CHOOSE i \in 1..Len(cards) :
            cards[i] = cardId /\ \A j \in 1..(i - 1) : cards[j] # cardId) - 1
    ELSE -1

\* A mutant: removeSpecificCard returns the card and leaves it in the pile.
Pile_removeSpecificCard_Keep(cards, card) ==
  IF Pile_findCardIndex(cards, card) = -1
    THEN [ret |-> <<>>, cards |-> cards]
    ELSE [ret |-> <<card>>, cards |-> cards]

\* removeSpecificCard(card): findIndex(c => c === card), splice(cardIndex, 1).
Pile_removeSpecificCard(cards, card) ==
  IF Pile_findCardIndex(cards, card) = -1
    THEN [ret |-> <<>>, cards |-> cards]
    ELSE [ret |-> <<card>>,
          cards |-> SpliceArray(cards, Pile_findCardIndex(cards, card), 1, <<>>)]

\* peekMultiple(count): this.cards.slice(-count); slice(-0) is the whole array.
Pile_peekMultiple(cards, count) ==
  IF count = 0 THEN cards
  ELSE SubSeq(cards, IF Len(cards) > count THEN Len(cards) - count + 1 ELSE 1, Len(cards))

\* transferCardTo(targetPile, cardId?): remove the named card (or the top card),
\* add it to the target, and put it back on this pile if the target refuses it.
Pile_transferCardTo(piles, source, target, cardId) ==
  IF cardId # None /\ Pile_findCardIndex(piles[source].cards, cardId[1]) = -1
    THEN [ret |-> <<>>, piles |-> piles]
    ELSE LET one == Pile_removeCard(
                      piles[source].cards,
                      IF cardId # None
                        THEN Some(Pile_findCardIndex(piles[source].cards, cardId[1]))
                        ELSE None)
             taken == [piles EXCEPT ![source].cards = one.cards]
         IN IF one.ret = <<>>
              THEN [ret |-> <<>>, piles |-> taken]
              ELSE LET add == Pile_addCard(taken[target].cards, taken[target].config,
                                           one.ret[1], None)
                       back == Pile_addCard(taken[source].cards, taken[source].config,
                                            one.ret[1], None)
                   IN IF add.ret
                        THEN [ret |-> one.ret,
                              piles |-> [taken EXCEPT ![target].cards = add.cards]]
                        ELSE [ret |-> <<>>,
                              piles |-> [taken EXCEPT ![source].cards = back.cards]]

\* for (const card of cardsToTransfer) { transferCardTo(target, card.id) or break }
RECURSIVE Pile_transferLoop(_, _, _, _, _)
Pile_transferLoop(piles, source, target, cardsToTransfer, i) ==
  IF i > Len(cardsToTransfer)
    THEN [ret |-> <<>>, piles |-> piles]
    ELSE LET one == Pile_transferCardTo(piles, source, target, Some(cardsToTransfer[i]))
         IN IF one.ret = <<>>
              THEN [ret |-> <<>>, piles |-> one.piles]
              ELSE LET rest == Pile_transferLoop(one.piles, source, target,
                                                 cardsToTransfer, i + 1)
                   IN [ret |-> one.ret \o rest.ret, piles |-> rest.piles]

Pile_transferCardsTo(piles, source, target, count) ==
  Pile_transferLoop(piles, source, target,
                    Pile_peekMultiple(piles[source].cards, count), 1)

\* validateCardTransfer: findCard(...) !== undefined (findCard yields the card or
\* null, never undefined), and the target holds fewer than 100 cards.
Table_validateCardTransfer(piles, source, target, card) ==
  Len(piles[target].cards) < 100

\* requestCardTransfer / executeCardTransfer: removeSpecificCard(card) from the
\* source, false if it was not there; target.addCard(removedCard), its result
\* dropped; TRANSFER_COMPLETED; true.
Table_requestCardTransfer(piles, source, target, card) ==
  LET requested == Event("table:transferRequested", <<card>>, <<>>)
      one == Pile_removeSpecificCard(piles[source].cards, card)
      taken == [piles EXCEPT ![source].cards = one.cards]
      add == Pile_addCard(taken[target].cards, taken[target].config, card, None)
  IN IF ~Table_validateCardTransfer(piles, source, target, card)
       THEN [ret |-> FALSE, piles |-> piles,
             events |-> <<requested, Event("table:transferBlocked", <<card>>, <<>>)>>]
     ELSE IF one.ret = <<>>
       THEN [ret |-> FALSE, piles |-> piles, events |-> <<requested>>]
     ELSE [ret |-> TRUE, piles |-> [taken EXCEPT ![target].cards = add.cards],
           events |-> <<requested, Event("table:transferCompleted", <<card>>, <<>>)>>]

\* What the last transfer call was: whether it moved a card, whether source and
\* target were the same pile, whether the request listed a card twice.
TransferOp(op, source, target, cards, moved) ==
  [op |-> op, moved |-> moved, same |-> source = target,
   twice |-> \E i, j \in 1..Len(cards) : i < j /\ cards[i] = cards[j]]

\* The card arrays handed to requestTransfer, a card twice among them.
TransferRequests == SeqsUpTo(TableCards, MaxRequest)

BothEvented(source, target) ==
  tablePiles[source].kind = "evented" /\ tablePiles[target].kind = "evented"

TransferRequestTransfer ==
  \E source \in PileIds, target \in PileIds, cards \in TransferRequests :
    LET r == Table_requestTransfer(tablePiles, source, cards, target)
    IN /\ tablePiles' = r.piles
       /\ tableLast' = TransferOp("requestTransfer", source, target, cards,
                                   r.ret /\ r.removed # <<>>)

TableRequestCardTransfer ==
  \E source \in PileIds, target \in PileIds, card \in TableCards :
    /\ BothEvented(source, target)
    /\ LET r == Table_requestCardTransfer(tablePiles, source, target, card)
       IN /\ tablePiles' = r.piles
          /\ tableLast' = TransferOp("requestCardTransfer", source, target, <<card>>, r.ret)

PileTransferCardTo ==
  \E source \in PileIds, target \in PileIds,
     cardId \in {None} \cup {Some(c) : c \in TableCards} :
    /\ BothEvented(source, target)
    /\ LET r == Pile_transferCardTo(tablePiles, source, target, cardId)
       IN /\ tablePiles' = r.piles
          /\ tableLast' = TransferOp("transferCardTo", source, target, cardId, r.ret # <<>>)

PileTransferCardsTo ==
  \E source \in PileIds, target \in PileIds, count \in 0..MaxRequest :
    /\ BothEvented(source, target)
    /\ LET r == Pile_transferCardsTo(tablePiles, source, target, count)
       IN /\ tablePiles' = r.piles
          /\ tableLast' = TransferOp("transferCardsTo", source, target, <<>>, r.ret # <<>>)

\* ============================================================================
\* Deck (deck manager): a pile seeded with cards, with a discard pile
\* ============================================================================
VARIABLES deckKind, deckCards, discardPile, deckSeed, deckDrawn, deckLast

deckVars == <<deckKind, deckCards, discardPile, deckSeed, deckDrawn, deckLast>>

\* What is drawn from: a Deck (the push and pop Pile with a discard pile), or the
\* event emitting Pile seeded through addCards.
DeckKinds == {"deck", "pile"}

\* new Deck(name, deckType, cards): this.cards = [...cards], no discards.
Deck_new(cards) == [cards |-> cards, discardPile |-> <<>>]

\* A mutant: a draw takes the bottom card.
Deck_removeCard_Bottom(kind, cards) ==
  IF Len(cards) = 0
    THEN [ret |-> <<>>, cards |-> cards]
    ELSE [ret |-> <<cards[1]>>, cards |-> Tail(cards)]

\* removeCard() with no argument, on either class.
Deck_removeCard(kind, cards) ==
  IF kind = "pile"
    THEN LET r == Pile_removeCard(cards, None) IN [ret |-> r.ret, cards |-> r.cards]
    ELSE LegacyPile_removeCard(cards)

\* removeCards(count) of the push and pop Pile, each card by removeCard().
RECURSIVE Deck_removeCards(_, _, _)
Deck_removeCards(kind, cards, count) ==
  IF count > 0 /\ Len(cards) > 0
    THEN LET one == Deck_removeCard(kind, cards)
             rest == Deck_removeCards(kind, one.cards, count - 1)
         IN [ret |-> one.ret \o rest.ret, cards |-> rest.cards]
    ELSE [ret |-> <<>>, cards |-> cards]

\* discard(card): this.discardPile.unshift(card)
Deck_discard(d, card) == [d EXCEPT !.discardPile = <<card>> \o d.discardPile]

\* A mutant: the discards left behind are replaced by the discard pile instead of
\* pushed on the cards, so the top discard is kept twice.
Deck_reshuffleDiscard_PushAll(d, includeTop) ==
  LET shifted == includeTop /\ Len(d.discardPile) > 0
      top == IF shifted THEN <<Head(d.discardPile)>> ELSE <<>>
  IN {[cards |-> shuffled, discardPile |-> top] :
        shuffled \in Pile_shuffle(d.cards \o d.discardPile)}

\* reshuffleDiscard(includeTop): with includeTop the first discard stays on the
\* discard pile; the others go under shuffle() with the deck's cards.
Deck_reshuffleDiscard(d, includeTop) ==
  LET shifted == includeTop /\ Len(d.discardPile) > 0
      rest == IF shifted THEN Tail(d.discardPile) ELSE d.discardPile
      top == IF shifted THEN <<Head(d.discardPile)>> ELSE <<>>
  IN {[cards |-> shuffled, discardPile |-> top] : shuffled \in Pile_shuffle(d.cards \o rest)}

\* reset(): this.cards.push(...this.discardPile); this.discardPile = []
Deck_reset(d) == [cards |-> d.cards \o d.discardPile, discardPile |-> <<>>]

DeckState == [cards |-> deckCards, discardPile |-> discardPile]

\* The seeds: n pairwise different cards, n up to NumCards.  No deck operation reads
\* a card's value, so the cards are named by their place in the seed.
DeckSeeds == {[i \in 1..n |-> i] : n \in 0..NumCards}

DeckInit ==
  /\ deckKind \in DeckKinds
  /\ deckSeed \in DeckSeeds
  /\ deckCards = IF deckKind = "pile"
                   THEN Pile_addCards(<<>>, DefaultPileConfig, deckSeed, None).cards
                   ELSE Deck_new(deckSeed).cards
  /\ discardPile = <<>>
  /\ deckDrawn = Some(<<>>)
  /\ deckLast = "new"

DeckIdle ==
  /\ deckKind = "deck"
  /\ deckSeed = <<>>
  /\ deckCards = <<>>
  /\ discardPile = <<>>
  /\ deckDrawn = Some(<<>>)
  /\ deckLast = "new"

\* deckDrawn is the cards drawn since the deck was seeded, as long as nothing but
\* draws has been called; None after any other call.
DrawnAfter(ret) == IF deckDrawn = None THEN None ELSE Some(deckDrawn[1] \o ret)

DeckRemoveCard ==
  LET r == Deck_removeCard(deckKind, deckCards)
  IN /\ deckCards' = r.cards
     /\ deckDrawn' = DrawnAfter(r.ret)
     /\ deckLast' = "removeCard"
     /\ UNCHANGED <<deckKind, deckSeed, discardPile>>

DeckRemoveCards ==
  \E count \in 0..MaxDraw :
    /\ deckKind = "deck"
    /\ LET r == Deck_removeCards(deckKind, deckCards, count)
       IN /\ deckCards' = r.cards
          /\ deckDrawn' = DrawnAfter(r.ret)
    /\ deckLast' = "removeCards"
    /\ UNCHANGED <<deckKind, deckSeed, discardPile>>

DeckDiscard ==
  \E card \in Cards :
    /\ deckKind = "deck"
    /\ Len(deckCards) + Len(discardPile) < MaxDeckTotal
    /\ discardPile' = Deck_discard(DeckState, card).discardPile
    /\ deckDrawn' = None
    /\ deckLast' = "discard"
    /\ UNCHANGED <<deckKind, deckSeed, deckCards>>

DeckReshuffleDiscard ==
  \E includeTop \in BOOLEAN :
    /\ deckKind = "deck"
    /\ \E d \in Deck_reshuffleDiscard(DeckState, includeTop) :
         /\ deckCards' = d.cards
         /\ discardPile' = d.discardPile
    /\ deckDrawn' = None
    /\ deckLast' = IF includeTop THEN "reshuffleDiscard(true)" ELSE "reshuffleDiscard(false)"
    /\ UNCHANGED <<deckKind, deckSeed>>

DeckReset ==
  /\ deckKind = "deck"
  /\ deckCards' = Deck_reset(DeckState).cards
  /\ discardPile' = Deck_reset(DeckState).discardPile
  /\ deckDrawn' = None
  /\ deckLast' = "reset"
  /\ UNCHANGED <<deckKind, deckSeed>>

DeckShuffle ==
  \E shuffled \in Pile_shuffle(deckCards) :
    /\ deckCards' = shuffled
    /\ deckDrawn' = None
    /\ deckLast' = "shuffle"
    /\ UNCHANGED <<deckKind, deckSeed, discardPile>>

\* ----------------------------------------------------------------------------
\* The other Deck class of the repository (part_006): discard() pushes, the top
\* discard is the last element, reshuffleDiscard() takes no argument.
\* ----------------------------------------------------------------------------

\* discard(card): this.discardPile.push(card)
OlderDeck_discard(d, card) == [d EXCEPT !.discardPile = Append(d.discardPile, card)]

\* reshuffleDiscard(): pop the top discard, push the others on the cards, keep
\* [topDiscard] (or [] when there was none), shuffle.
OlderDeck_reshuffleDiscard(d) ==
  LET popped == Len(d.discardPile) > 0
      rest == IF popped THEN SubSeq(d.discardPile, 1, Len(d.discardPile) - 1) ELSE <<>>
      top == IF popped THEN <<d.discardPile[Len(d.discardPile)]>> ELSE <<>>
  IN {[cards |-> shuffled, discardPile |-> top] : shuffled \in Pile_shuffle(d.cards \o rest)}

\* getTopDiscard() of either class, as <<card>> or <<>>.
Deck_getTopDiscard(kind, discards) ==
  IF Len(discards) = 0 THEN <<>>
  ELSE IF kind = "olderDeck" THEN <<discards[Len(discards)]>>
  ELSE <<discards[1]>>

ReshuffleInit ==
  /\ deckKind \in {"deck", "olderDeck"}
  /\ deckSeed \in DeckSeeds
  /\ deckCards = Deck_new(deckSeed).cards
  /\ discardPile = <<>>
  /\ deckDrawn = None
  /\ deckLast = "new"

OlderDeckDiscard ==
  \E card \in Cards :
    /\ deckKind = "olderDeck"
    /\ Len(deckCards) + Len(discardPile) < MaxDeckTotal
    /\ discardPile' = OlderDeck_discard(DeckState, card).discardPile
    /\ deckLast' = "discard"
    /\ UNCHANGED <<deckKind, deckSeed, deckCards, deckDrawn>>

OlderDeckReshuffleDiscard ==
  /\ deckKind = "olderDeck"
  /\ \E d \in OlderDeck_reshuffleDiscard(DeckState) :
       /\ deckCards' = d.cards
       /\ discardPile' = d.discardPile
  /\ deckLast' = "reshuffleDiscard()"
  /\ UNCHANGED <<deckKind, deckSeed, deckDrawn>>

\* ============================================================================
\* Table and Player: game state, players, turns, the pile registry
\* ============================================================================
VARIABLES tableClass, gameState, tablePlayers, currentPlayer, pileRegistry,
          playerTable, playerActive, playerPiles, turnListeners, gameLast

gameVars == <<tableClass, gameState, tablePlayers, currentPlayer, pileRegistry,
              playerTable, playerActive, playerPiles, turnListeners, gameLast>>

\* The two Table classes of the table manager: the first has requestTransfer and
\* addPlayer(playerId, player), the second requestCardTransfer and addPlayer(player).
TableClasses == {"first", "second"}

GameStates == {"waiting", "active", "paused", "ended"}

PlayerIds == 1..NumPlayers

\* Pile instances, by reference.
PileRefs == 1..NumPileRefs

\* The ids under which callers register piles, and the ids of a player's own piles.
DirectPileIds == {"deck", "discard"}

PlayerPileIds == {"hand"}

\* A key of the registry: the id itself, or `${player.id}_${pileId}` (Player.addPile)
\* or `${player.id}-${pileId}` (the second Table's addPlayer).
DirectKey(id) == <<0, "", id>>

PlayerKey(player, sep, pileId) == <<player, sep, pileId>>

RegistryKeys ==
  {DirectKey(id) : id \in DirectPileIds}
    \cup {PlayerKey(q, sep, id) : q \in PlayerIds, sep \in {"_", "-"}, id \in PlayerPileIds}

\* An event of the table or of a player.
GameEvent(type, player, previous) == [type |-> type, player |-> player, previous |-> previous]

\* The state a call works on and its result: the table's and the players' fields and
\* the events emitted so far.
GameNow ==
  [gameState |-> gameState, players |-> tablePlayers, currentPlayer |-> currentPlayer,
   registry |-> pileRegistry, playerTable |-> playerTable,
   active |-> playerActive, playerPiles |-> playerPiles, listeners |-> turnListeners,
   events |-> <<>>]

Emit(g, event) == [g EXCEPT !.events = Append(g.events, event)]

\* startGame(): the second Table also wants a player.
Table_startGame(class, g) ==
  IF g.gameState = "waiting" /\ (class = "first" \/ Cardinality(g.players) > 0)
    THEN Emit([g EXCEPT !.gameState = "active"], GameEvent("table:gameStarted", None, None))
    ELSE g

Table_endGame(g) ==
  Emit([g EXCEPT !.gameState = "ended"], GameEvent("table:gameEnded", None, None))

Table_pauseGame(g) ==
  IF g.gameState = "active" THEN [g EXCEPT !.gameState = "paused"] ELSE g

Table_resumeGame(g) ==
  IF g.gameState = "paused" THEN [g EXCEPT !.gameState = "active"] ELSE g

\* Player.startTurn / Player.endTurn
Player_startTurn(g, q) ==
  Emit([g EXCEPT !.active[q] = TRUE], GameEvent("player:turnStarted", Some(q), None))

Player_endTurn(g, q) ==
  Emit([g EXCEPT !.active[q] = FALSE], GameEvent("player:turnEnded", Some(q), None))

\* The listener setupTableEventListeners attaches for player q, called with an event.
Player_onTurnChanged(g, q, event) ==
  IF event.player = Some(q) THEN Player_startTurn(g, q)
  ELSE IF event.previous = Some(q) THEN Player_endTurn(g, q)
  ELSE g

\* emit(TURN_CHANGED, event): the listeners attached when emit is called, in
\* attachment order.
RECURSIVE EmitTurnChanged(_, _, _)
EmitTurnChanged(g, listeners, event) ==
  IF listeners = <<>> THEN g
  ELSE EmitTurnChanged(Player_onTurnChanged(g, Head(listeners), event), Tail(listeners), event)

\* setCurrentPlayer(playerId).  The first Table assigns this.currentPlayer and then
\* reads it for previousPlayer; the second reads it before assigning.
Table_setCurrentPlayer(class, g, playerId) ==
  LET previousPlayer == IF class = "first" THEN Some(playerId) ELSE g.currentPlayer
      event == GameEvent("table:turnChanged", Some(playerId), previousPlayer)
      g1 == Emit([g EXCEPT !.currentPlayer = Some(playerId)], event)
  IN EmitTurnChanged(g1, g1.listeners, event)

\* registerPile(id, pile): this.piles.set(id, pile).  The listeners the table then
\* attaches to the pile are the pile's state, not the table's, and are left out.
Table_registerPile(g, key, pile) == [g EXCEPT !.registry[key] = Some(pile)]

\* unregisterPile(id): delete the id, when it is known.
Table_unregisterPile(g, key) ==
  IF g.registry[key] = None THEN g ELSE [g EXCEPT !.registry[key] = None]

\* player.piles.forEach(registerPile(`${player.id}-${pileId}`, pile)) over the
\* piles the player has, ids being those not visited yet.
RECURSIVE RegisterForPlayer(_, _, _)
RegisterForPlayer(g, q, ids) ==
  IF ids = {} THEN g
  ELSE LET id == CHOOSE x \in ids : TRUE
           g1 == IF g.playerPiles[q][id] = None THEN g
                 ELSE Table_registerPile(g, PlayerKey(q, "-", id), g.playerPiles[q][id][1])
       IN RegisterForPlayer(g1, q, ids \ {id})

\* player.piles.forEach(unregisterPile(`${player.id}-${pileId}`))
RECURSIVE UnregisterForPlayer(_, _, _)
UnregisterForPlayer(g, q, ids) ==
  IF ids = {} THEN g
  ELSE LET id == CHOOSE x \in ids : TRUE
           g1 == IF g.playerPiles[q][id] = None THEN g
                 ELSE Table_unregisterPile(g, PlayerKey(q, "-", id))
       IN UnregisterForPlayer(g1, q, ids \ {id})

\* addPlayer: the first Table stores the player; the second also registers each of
\* the player's piles under `${player.id}-${pileId}`.
Table_addPlayer(class, g, q) ==
  LET g1 == [g EXCEPT !.players = g.players \cup {q}]
      g2 == IF class = "second" THEN RegisterForPlayer(g1, q, PlayerPileIds)
            ELSE g1
  IN Emit(g2, GameEvent("table:playerJoined", Some(q), None))

Table_removePlayer(class, g, q) ==
  IF q \notin g.players THEN g
  ELSE LET g1 == IF class = "second"
                   THEN UnregisterForPlayer(g, q, PlayerPileIds)
                   ELSE g
       IN Emit([g1 EXCEPT !.players = g1.players \ {q}],
               GameEvent("table:playerLeft", Some(q), None))

\* leaveTable(): table.removePlayer(id); table.off('table:turnChanged'), which
\* detaches every listener of that event; this.table = undefined.
Player_leaveTable(class, g, q) ==
  IF q \notin g.playerTable THEN g
  ELSE LET g1 == Table_removePlayer(class, g, q)
       IN [g1 EXCEPT !.listeners = <<>>, !.playerTable = g1.playerTable \ {q}]

\* destroy(): leaveTable(); this.piles.clear(); removeAllListeners() on the player.
Player_destroy(class, g, q) ==
  LET g1 == Player_leaveTable(class, g, q)
  IN [g1 EXCEPT !.playerPiles[q] = [id \in PlayerPileIds |-> None]]

\* joinTable(table): leave the table the player is at; this.table = table;
\* table.addPlayer(id, this); attach the turn listener.
Player_joinTable(class, g, q) ==
  LET g0 == Player_leaveTable(class, g, q)
      g1 == Table_addPlayer(class, [g0 EXCEPT !.playerTable = g0.playerTable \cup {q}], q)
  IN [g1 EXCEPT !.listeners = Append(g1.listeners, q)]

\* addPile(pileId, pile): keep the pile; at a table, register it under
\* `${id}_${pileId}`.
Player_addPile(g, q, id, pile) ==
  LET g1 == [g EXCEPT !.playerPiles[q][id] = Some(pile)]
  IN IF q \in g.playerTable THEN Table_registerPile(g1, PlayerKey(q, "_", id), pile) ELSE g1

Player_removePile(g, q, id) ==
  LET g1 == IF g.playerPiles[q][id] # None /\ q \in g.playerTable
              THEN Table_unregisterPile(g, PlayerKey(q, "_", id))
              ELSE g
  IN [g1 EXCEPT !.playerPiles[q][id] = None]

\* The record of the last call: the operation, its argument, the events emitted
\* during it, and the game state and the current player before it.
GameOp(op, arg, events) ==
  [op |-> op, arg |-> arg, events |-> events, stateBefore |-> gameState,
   currentBefore |-> currentPlayer]

\* A call's effect on the table and the players.
GameStep(op, arg, g) ==
  /\ gameState' = g.gameState
  /\ tablePlayers' = g.players
  /\ currentPlayer' = g.currentPlayer
  /\ pileRegistry' = g.registry
  /\ playerTable' = g.playerTable
  /\ playerActive' = g.active
  /\ playerPiles' = g.playerPiles
  /\ turnListeners' = g.listeners
  /\ gameLast' = GameOp(op, arg, g.events)
  /\ UNCHANGED tableClass

\* new Table(config), new Player(config): waiting, nobody joined, nothing registered.
GameFresh ==
  /\ gameState = "waiting"
  /\ tablePlayers = {}
  /\ currentPlayer = None
  /\ pileRegistry = [k \in RegistryKeys |-> None]
  /\ playerTable = {}
  /\ playerActive = [q \in PlayerIds |-> FALSE]
  /\ playerPiles = [q \in PlayerIds |-> [id \in PlayerPileIds |-> None]]
  /\ turnListeners = <<>>
  /\ gameLast = GameOp("new", None, <<>>)

GameInit == tableClass \in TableClasses /\ GameFresh

GameIdle == tableClass = "first" /\ GameFresh

TableStartGame == GameStep("startGame", None, Table_startGame(tableClass, GameNow))

TableEndGame == GameStep("endGame", None, Table_endGame(GameNow))

TablePauseGame == GameStep("pauseGame", None, Table_pauseGame(GameNow))

TableResumeGame == GameStep("resumeGame", None, Table_resumeGame(GameNow))

TableSetCurrentPlayer ==
  \E q \in PlayerIds :
    GameStep("setCurrentPlayer", Some(q), Table_setCurrentPlayer(tableClass, GameNow, q))

TableAddPlayer ==
  \E q \in PlayerIds :
    /\ GameStep("addPlayer", Some(q), Table_addPlayer(tableClass, GameNow, q))

TableRemovePlayer ==
  \E q \in PlayerIds :
    GameStep("removePlayer", Some(q), Table_removePlayer(tableClass, GameNow, q))

\* A Player calls table.addPlayer(id, this), the first Table's addPlayer.
PlayerJoinTable ==
  \E q \in PlayerIds :
    /\ tableClass = "first"
    /\ GameStep("joinTable", Some(q), Player_joinTable(tableClass, GameNow, q))

PlayerLeaveTable ==
  \E q \in PlayerIds :
    /\ tableClass = "first"
    /\ GameStep("leaveTable", Some(q), Player_leaveTable(tableClass, GameNow, q))

PlayerDestroy ==
  \E q \in PlayerIds :
    /\ tableClass = "first"
    /\ GameStep("destroy", Some(q), Player_destroy(tableClass, GameNow, q))

TableRegisterPile ==
  \E id \in DirectPileIds, pile \in PileRefs :
    /\ GameStep("registerPile", Some(pile), Table_registerPile(GameNow, DirectKey(id), pile))

TableUnregisterPile ==
  \E id \in DirectPileIds :
    GameStep("unregisterPile", None, Table_unregisterPile(GameNow, DirectKey(id)))

PlayerAddPile ==
  \E q \in PlayerIds, id \in PlayerPileIds, pile \in PileRefs :
    /\ GameStep("addPile", Some(pile), Player_addPile(GameNow, q, id, pile))

PlayerRemovePile ==
  \E q \in PlayerIds, id \in PlayerPileIds :
    GameStep("removePile", None, Player_removePile(GameNow, q, id))

\* ============================================================================
\* CardAnimationManager (part_012): the animation queue and the scene's tweens
\* ============================================================================
VARIABLES animationQueue, isProcessingQueue, animatingCards, sceneTweens,
          animStarted, animRequested

animVars == <<animationQueue, isProcessingQueue, animatingCards, sceneTweens,
              animStarted, animRequested>>

\* drawCard, moveCard, playCard, returnCard, revealCard, hideCard
AnimationKinds == {"draw", "move", "play", "return", "reveal", "hide"}

\* The tweens an animation chains: play, reveal and hide add a second tween in
\* the onComplete of the first, and finish in the onComplete of the second.
TweenCount(kind) == IF kind \in {"play", "reveal", "hide"} THEN 2 ELSE 1

\* An animation is its request number (animations are numbered as requested).
Animation(id, kind) == [id |-> id, kind |-> kind]

AnimNow ==
  [queue |-> animationQueue, processing |-> isProcessingQueue,
   animating |-> animatingCards, tweens |-> sceneTweens, started |-> animStarted]

\* execute*(event): the sprite is put in animatingCards and the first tween is
\* added to the scene.
Anim_execute(a, anim) ==
  [a EXCEPT !.animating = @ \cup {anim.id},
            !.tweens = @ \cup {[anim |-> anim, stage |-> 1]},
            !.started = Append(@, anim.id)]

\* processNextAnimation(): an empty queue clears isProcessingQueue; otherwise the
\* flag is set and the head of the queue is shifted out and run.
Anim_processNextAnimation(a) ==
  IF Len(a.queue) = 0
    THEN [a EXCEPT !.processing = FALSE]
    ELSE Anim_execute([a EXCEPT !.processing = TRUE, !.queue = Tail(@)], Head(a.queue))

\* queueAnimation(f): push, and process the queue unless it is being processed.
Anim_queueAnimation(a, anim) ==
  IF ~a.processing
    THEN Anim_processNextAnimation([a EXCEPT !.queue = Append(@, anim)])
    ELSE [a EXCEPT !.queue = Append(@, anim)]

\* The onComplete of a tween: the first tween of a two-tween animation adds the
\* second; the last destroys the sprite, deletes the animatingCards entry and
\* calls processNextAnimation.
Anim_onComplete(a, tween) ==
  IF tween.stage < TweenCount(tween.anim.kind)
    THEN [a EXCEPT !.tweens = (@ \ {tween}) \cup {[tween EXCEPT !.stage = @ + 1]}]
    ELSE Anim_processNextAnimation(
           [a EXCEPT !.tweens = @ \ {tween}, !.animating = @ \ {tween.anim.id}])

\* cancelAllAnimations(): sprites destroyed, animatingCards and the queue emptied,
\* isProcessingQueue cleared.  The tweens added to the scene are not touched:
\* they stay with the scene and their onComplete still runs.
Anim_cancelAllAnimations(a) ==
  [a EXCEPT !.animating = {}, !.queue = <<>>, !.processing = FALSE]

AnimStep(a) ==
  /\ animationQueue' = a.queue
  /\ isProcessingQueue' = a.processing
  /\ animatingCards' = a.animating
  /\ sceneTweens' = a.tweens
  /\ animStarted' = a.started

AnimIdle ==
  /\ animationQueue = <<>>
  /\ isProcessingQueue = FALSE
  /\ animatingCards = {}
  /\ sceneTweens = {}
  /\ animStarted = <<>>
  /\ animRequested = 0

AnimInit == AnimIdle

AnimRequest ==
  \E kind \in AnimationKinds :
    /\ animRequested < MaxAnimations
    /\ animRequested' = animRequested + 1
    /\ AnimStep(Anim_queueAnimation(AnimNow, Animation(animRequested + 1, kind)))

TweenComplete ==
  \E tween \in sceneTweens :
    /\ AnimStep(Anim_onComplete(AnimNow, tween))
    /\ UNCHANGED animRequested

CancelAllAnimations ==
  /\ AnimStep(Anim_cancelAllAnimations(AnimNow))
  /\ UNCHANGED animRequested

\* ============================================================================
\* MultiplayerGameSession (multiplayer.session.ts) over GameSession
\* (deck.manager.ts:193-257): the players, whose turn it is
\* ============================================================================
VARIABLES sessionPlayers, currentPlayerIndex, currentTurnPlayerId, sessionState,
          playerHands, sessionLast

sessionVars == <<sessionPlayers, currentPlayerIndex, currentTurnPlayerId, sessionState,
                 playerHands, sessionLast>>

\* Player ids: the names given to the constructor or announced by the client, and
\* the id addAIPlayer makes from Date.now().
HumanIds == {"alice", "bob"}

AiIds == {"ai_1"}

SessionIds == HumanIds \cup AiIds

\* players[i] of an index that is not in the array, and the initial
\* currentTurnPlayerId.
Undefined == "undefined"

EmptyId == ""

\* getInitialCardCount() of a blackjack session.
InitialCardCount == 2

\* currentPlayerIndex is <<n>> for the number n and <<>> for NaN.
NaN == None

\* Array.prototype.indexOf, 0-based, -1 when absent.
IndexOf(s, x) ==
  IF \E i \in 1..Len(s) : s[i] = x
    THEN (CHOOSE i \in 1..Len(s) : s[i] = x /\ \A j \in 1..(i - 1) : s[j] # x) - 1
    ELSE -1

\* this.players[this.currentPlayerIndex]
PlayerAt(s, index) ==
  IF index # NaN /\ index[1] >= 0 /\ index[1] < Len(s) THEN s[index[1] + 1] ELSE Undefined

SessionNow ==
  [players |-> sessionPlayers, currentPlayerIndex |-> currentPlayerIndex,
   currentTurnPlayerId |-> currentTurnPlayerId, gameState |-> sessionState,
   playerHands |-> playerHands]

\* playerHands.set(id, cards), the hand held as its number of cards.
SetHand(hands, id, n) == [q \in DOMAIN hands \cup {id} |-> IF q = id THEN n ELSE hands[q]]

\* dealCards(cardsPerPlayer) and the forEach that stores each player's hand.
DealHands(hands, s) ==
  [q \in DOMAIN hands \cup Elems(s) |-> IF q \in Elems(s) THEN InitialCardCount ELSE hands[q]]

\* startGame(): super.startGame() sets currentPlayerIndex = 0; then 'playing',
\* currentTurnPlayerId = players[currentPlayerIndex], the deal.
Session_startGame(g) ==
  [g EXCEPT !.currentPlayerIndex = Some(0),
            !.gameState = "playing",
            !.currentTurnPlayerId = PlayerAt(g.players, Some(0)),
            !.playerHands = DealHands(g.playerHands, g.players)]

\* nextPlayer(): (currentPlayerIndex + 1) % players.length, NaN when the array is
\* empty or the index was NaN; then currentTurnPlayerId = players[currentPlayerIndex].
Session_nextPlayer(g) ==
  LET next == IF g.currentPlayerIndex = NaN \/ Len(g.players) = 0 THEN NaN
              ELSE Some((g.currentPlayerIndex[1] + 1) % Len(g.players))
  IN [g EXCEPT !.currentPlayerIndex = next,
               !.currentTurnPlayerId = PlayerAt(g.players, next)]

\* playCard(playerId, card), held telling whether the card is found in the hand:
\* throws unless it is the player's turn and the card is in the hand; removes the
\* card; an empty hand ends the game, otherwise nextPlayer().
Session_playCard(g, playerId, held) ==
  IF playerId # g.currentTurnPlayerId \/ playerId \notin DOMAIN g.playerHands \/ ~held
    THEN g
    ELSE LET g1 == [g EXCEPT !.playerHands[playerId] = @ - 1]
         IN IF g1.playerHands[playerId] = 0
              THEN [g1 EXCEPT !.gameState = "finished"]
              ELSE Session_nextPlayer(g1)

\* endTurn(playerId): throws unless it is the player's turn; nextPlayer().
Session_endTurn(g, playerId) ==
  IF playerId # g.currentTurnPlayerId THEN g ELSE Session_nextPlayer(g)

\* addAIPlayer(difficulty): players.push(aiId); playerHands.set(aiId, [])
Session_addAIPlayer(g, aiId) ==
  [g EXCEPT !.players = Append(g.players, aiId),
            !.playerHands = SetHand(g.playerHands, aiId, 0)]

\* onPlayerJoined(player): a new id is pushed and given an empty hand.
Session_onPlayerJoined(g, id) ==
  IF id \in Elems(g.players) THEN g
  ELSE [g EXCEPT !.players = Append(g.players, id),
                 !.playerHands = SetHand(g.playerHands, id, 0)]

\* onPlayerLeft(playerId): splice the id out, delete its hand, and put
\* currentPlayerIndex back to 0 when it is past the end.
Session_onPlayerLeft(g, id) ==
  LET index == IndexOf(g.players, id)
      rest == SpliceArray(g.players, index, 1, <<>>)
  IN IF index > -1
       THEN [g EXCEPT !.players = rest,
                      !.playerHands = [q \in DOMAIN g.playerHands \ {id} |-> g.playerHands[q]],
                      !.currentPlayerIndex =
                         IF g.currentPlayerIndex # NaN /\ g.currentPlayerIndex[1] >= Len(rest)
                           THEN Some(0) ELSE g.currentPlayerIndex]
       ELSE g

\* onGameStateSync(state)
Session_onGameStateSync(g, state) ==
  [g EXCEPT !.gameState = state.gameState,
            !.currentPlayerIndex = Some(IndexOf(g.players, state.currentPlayer)),
            !.currentTurnPlayerId = state.currentPlayer]

\* A call's effect on the session, and the call's name.
SessionStep(op, g) ==
  /\ sessionLast' = op
  /\ sessionPlayers' = g.players
  /\ currentPlayerIndex' = g.currentPlayerIndex
  /\ currentTurnPlayerId' = g.currentTurnPlayerId
  /\ sessionState' = g.gameState
  /\ playerHands' = g.playerHands

\* new MultiplayerGameSession(gameType, playerNames): the names, index 0, no turn
\* holder, 'waiting', no hands.
SessionFresh(names) ==
  /\ sessionPlayers = names
  /\ currentPlayerIndex = Some(0)
  /\ currentTurnPlayerId = EmptyId
  /\ sessionState = "waiting"
  /\ playerHands = <<>>
  /\ sessionLast = "new"

SessionInit == \E names \in DistinctSeqs(HumanIds) : Len(names) >= 1 /\ SessionFresh(names)

SessionIdle == SessionFresh(<<"alice">>)

SessionStartGame == SessionStep("startGame", Session_startGame(SessionNow))

SessionNextPlayer == SessionStep("nextPlayer", Session_nextPlayer(SessionNow))

SessionPlayCard ==
  \E playerId \in SessionIds, held \in BOOLEAN :
    /\ held => (playerId \in DOMAIN playerHands /\ playerHands[playerId] > 0)
    /\ SessionStep("playCard", Session_playCard(SessionNow, playerId, held))

SessionEndTurn ==
  \E playerId \in SessionIds : SessionStep("endTurn", Session_endTurn(SessionNow, playerId))

SessionAddAIPlayer ==
  \E aiId \in AiIds :
    /\ Len(sessionPlayers) < MaxSessionPlayers
    /\ SessionStep("addAIPlayer", Session_addAIPlayer(SessionNow, aiId))

SessionPlayerJoined ==
  \E id \in SessionIds :
    /\ Len(sessionPlayers) < MaxSessionPlayers
    /\ SessionStep("playerJoined", Session_onPlayerJoined(SessionNow, id))

SessionPlayerLeft ==
  \E id \in SessionIds : SessionStep("playerLeft", Session_onPlayerLeft(SessionNow, id))

\* The server's state: its current player and game state.
SessionGameStateSync ==
  \E current \in SessionIds, state \in {"waiting", "playing", "paused", "finished"} :
    SessionStep("gameStateSync",
                Session_onGameStateSync(SessionNow, [gameState |-> state, currentPlayer |-> current]))

\* ============================================================================
\* MultiplayerClient (ScenePathGuessListExample.ts:194-706): connection,
\* reconnect timers, heartbeat, sendMessage and its reply
\* ============================================================================
VARIABLES connectionState, sockets, reconnectTimer, intervals, timersCreated,
          userConnecting, timerConnecting, heartbeatTimers, heartbeatsPending,
          attemptsMade, sequenceNumber, promises, responseHandlers, replied,
          clientLast

clientVars == <<connectionState, sockets, reconnectTimer, intervals, timersCreated,
                userConnecting, timerConnecting, heartbeatTimers, heartbeatsPending,
                attemptsMade, sequenceNumber, promises, responseHandlers, replied,
                clientLast>>

\* The setInterval timers attemptReconnect may create in a run, by id.
TimerIds == 1..MaxTimers

\* The sequence numbers of the messages handed to sendMessage in a run.
MessageIds == 1..MaxMessages

\* The state of a reconnect interval: running or cleared, and the `attempts`
\* variable of the attemptReconnect call that created it.
Interval(live, attempts) == [live |-> live, attempts |-> attempts]

LiveTimers(c) == {t \in TimerIds : c.intervals[t].live}

ClientNow ==
  [connectionState |-> connectionState, sockets |-> sockets,
   reconnectTimer |-> reconnectTimer, intervals |-> intervals,
   timersCreated |-> timersCreated, userConnecting |-> userConnecting,
   timerConnecting |-> timerConnecting, heartbeatTimers |-> heartbeatTimers,
   heartbeatsPending |-> heartbeatsPending, attemptsMade |-> attemptsMade,
   sequenceNumber |-> sequenceNumber, promises |-> promises,
   responseHandlers |-> responseHandlers, replied |-> replied]

\* stopReconnectTimer(): clearInterval(this.reconnectTimer), when it is set.
Client_stopReconnectTimer(c) ==
  IF c.reconnectTimer = None THEN c
  ELSE [c EXCEPT !.intervals[c.reconnectTimer[1]].live = FALSE, !.reconnectTimer = None]

\* attemptReconnect(): let attempts = 0; this.reconnectTimer = setInterval(...).
\* The interval this.reconnectTimer held before is not cleared.
Client_attemptReconnect(c) ==
  LET t == c.timersCreated + 1
  IN [c EXCEPT !.timersCreated = t,
               !.intervals[t] = Interval(TRUE, 0),
               !.reconnectTimer = Some(t)]

\* handleDisconnection(): DISCONNECTED; attemptReconnect() when
\* config.reconnectAttempts > 0.
Client_handleDisconnection(c) ==
  LET c1 == [c EXCEPT !.connectionState = "disconnected"]
  IN IF ReconnectAttempts > 0 THEN Client_attemptReconnect(c1) ELSE c1

\* connect() up to its await: CONNECTING, a socket being opened.
Client_connect(c) == [c EXCEPT !.connectionState = "connecting"]

\* connect() after the socket opened: CONNECTED, startHeartbeat() (a new interval;
\* the heartbeat interval of an earlier connect keeps running).
Client_connected(c) ==
  [c EXCEPT !.connectionState = "connected",
            !.sockets = c.sockets + 1,
            !.heartbeatTimers = c.heartbeatTimers + 1]

\* connect() after the socket failed to open: ERROR, the error is thrown on.
Client_connectFailed(c) == [c EXCEPT !.connectionState = "error"]

\* One tick of reconnect interval t, up to the await of connect(): with the
\* attempts used up, stopReconnectTimer() and 'reconnectFailed'; otherwise
\* attempts++, RECONNECTING, connect().
Client_reconnectTick(c, t) ==
  IF c.intervals[t].attempts >= ReconnectAttempts
    THEN [Client_stopReconnectTimer(c) EXCEPT !.attemptsMade = 0]
    ELSE Client_connect([c EXCEPT !.intervals[t].attempts = @ + 1,
                                  !.attemptsMade = c.attemptsMade + 1,
                                  !.timerConnecting = c.timerConnecting + 1])

\* The tick after its connect() resolved: stopReconnectTimer(); no room to rejoin,
\* no queued message.
Client_reconnected(c) ==
  [Client_stopReconnectTimer(Client_connected(c)) EXCEPT
     !.timerConnecting = c.timerConnecting - 1, !.attemptsMade = 0]

\* off(event, wrappedHandler) inside emit's forEach: the handler at 0-based index i
\* has run and is spliced out; forEach goes on at index i + 1 of the shorter array.
RECURSIVE Client_runOnce(_, _, _)
Client_runOnce(c, i, response) ==
  IF i >= Len(c.responseHandlers) THEN c
  ELSE LET waiting == c.responseHandlers[i + 1]
           c1 == IF response = waiting /\ c.promises[waiting] = "pending"
                   THEN [c EXCEPT !.promises[waiting] = "resolved"] ELSE c
       IN Client_runOnce([c1 EXCEPT !.responseHandlers = SpliceArray(@, i, 1, <<>>)],
                         i + 1, response)

\* emit(event, ...args): the handlers registered for the event.  The client
\* registers handlers of its own for 'messageResponse' only (sendMessage).
Client_emit(c, event, arg) ==
  IF event = "messageResponse" THEN Client_runOnce(c, 0, arg) ELSE c

\* handleMessage(message): the switch on message.type emits room, player, sync,
\* chat, emote or error events; then emit('messageReceived', message).
Client_handleMessage(c, seq) ==
  Client_emit([c EXCEPT !.replied = c.replied \cup {seq}], "messageReceived", seq)

\* sendMessage(message) with message.sequenceNumber = ++sequenceNumber: not
\* connected, the message is queued and the call throws; connected, the message is
\* sent and a promise waits for 'messageResponse' or for its 5 s timeout.
Client_sendMessage(c) ==
  LET seq == c.sequenceNumber + 1
  IN IF c.connectionState # "connected"
       THEN [c EXCEPT !.sequenceNumber = seq, !.promises[seq] = "Not connected to server"]
       ELSE [c EXCEPT !.sequenceNumber = seq,
                      !.promises[seq] = "pending",
                      !.responseHandlers = Append(c.responseHandlers, seq)]

\* The setTimeout of sendMessage: reject(new Error('Message timeout')), which
\* settles a promise that is still pending.
Client_messageTimeout(c, seq) ==
  IF c.promises[seq] = "pending" THEN [c EXCEPT !.promises[seq] = "Message timeout"] ELSE c

ClientStep(op, c) ==
  /\ clientLast' = op
  /\ connectionState' = c.connectionState
  /\ sockets' = c.sockets
  /\ reconnectTimer' = c.reconnectTimer
  /\ intervals' = c.intervals
  /\ timersCreated' = c.timersCreated
  /\ userConnecting' = c.userConnecting
  /\ timerConnecting' = c.timerConnecting
  /\ heartbeatTimers' = c.heartbeatTimers
  /\ heartbeatsPending' = c.heartbeatsPending
  /\ attemptsMade' = c.attemptsMade
  /\ sequenceNumber' = c.sequenceNumber
  /\ promises' = c.promises
  /\ responseHandlers' = c.responseHandlers
  /\ replied' = c.replied

\* new MultiplayerClient(config)
ClientFresh ==
  /\ connectionState = "disconnected"
  /\ sockets = 0
  /\ reconnectTimer = None
  /\ intervals = [t \in TimerIds |-> Interval(FALSE, 0)]
  /\ timersCreated = 0
  /\ userConnecting = 0
  /\ timerConnecting = 0
  /\ heartbeatTimers = 0
  /\ heartbeatsPending = 0
  /\ attemptsMade = 0
  /\ sequenceNumber = 0
  /\ promises = [seq \in MessageIds |-> "unsent"]
  /\ responseHandlers = <<>>
  /\ replied = {}
  /\ clientLast = "new"

ClientInit == ClientFresh

ClientIdle == ClientFresh

\* The client after `await client.connect()`.
ClientConnectedInit ==
  /\ connectionState = "connected"
  /\ sockets = 1
  /\ reconnectTimer = None
  /\ intervals = [t \in TimerIds |-> Interval(FALSE, 0)]
  /\ timersCreated = 0
  /\ userConnecting = 0
  /\ timerConnecting = 0
  /\ heartbeatTimers = 1
  /\ heartbeatsPending = 0
  /\ attemptsMade = 0
  /\ sequenceNumber = 0
  /\ promises = [seq \in MessageIds |-> "unsent"]
  /\ responseHandlers = <<>>
  /\ replied = {}
  /\ clientLast = "connect"

\* The application calls connect() on a client that is not connected.
ClientConnect ==
  /\ connectionState = "disconnected" /\ sockets = 0
  /\ userConnecting = 0 /\ timerConnecting = 0 /\ LiveTimers(ClientNow) = {}
  /\ ClientStep("connect", [Client_connect(ClientNow) EXCEPT !.userConnecting = 1])

\* ws.onopen / ws.onerror of the socket the application's connect() waits for.
ClientConnectOpened ==
  /\ userConnecting = 1
  /\ ClientStep("connected", [Client_connected(ClientNow) EXCEPT !.userConnecting = 0])

ClientConnectError ==
  /\ userConnecting = 1
  /\ ClientStep("connectError", [Client_connectFailed(ClientNow) EXCEPT !.userConnecting = 0])

\* ws.onclose of an open socket.
SocketClose ==
  /\ sockets > 0
  /\ timersCreated < MaxTimers
  /\ ClientStep("socketClose",
                Client_handleDisconnection([ClientNow EXCEPT !.sockets = sockets - 1]))

\* A heartbeat interval fires while CONNECTED: sendMessage(heartbeat).
HeartbeatTick ==
  /\ heartbeatTimers > 0
  /\ connectionState = "connected"
  /\ heartbeatsPending < MaxHeartbeatsPending
  /\ ClientStep("heartbeat", [ClientNow EXCEPT !.heartbeatsPending = heartbeatsPending + 1])

\* The heartbeat's promise is rejected: .catch(() => this.handleDisconnection()).
HeartbeatFailed ==
  /\ heartbeatsPending > 0
  /\ timersCreated < MaxTimers
  /\ ClientStep("heartbeatFailed",
                Client_handleDisconnection(
                  [ClientNow EXCEPT !.heartbeatsPending = heartbeatsPending - 1]))

\* A reconnect interval fires.
ReconnectTick ==
  \E t \in TimerIds :
    /\ intervals[t].live
    /\ timerConnecting < MaxConnecting
    /\ attemptsMade <= ReconnectAttempts
    /\ ClientStep("reconnectTick", Client_reconnectTick(ClientNow, t))

\* The socket a reconnect tick waits for opens, or fails to.
ReconnectOpened ==
  /\ timerConnecting > 0
  /\ ClientStep("reconnected", Client_reconnected(ClientNow))

ReconnectError ==
  /\ timerConnecting > 0
  /\ ClientStep("reconnectError",
                [Client_connectFailed(ClientNow) EXCEPT !.timerConnecting = timerConnecting - 1])

\* sendMessage on a connected client.
ClientSendMessage ==
  /\ sequenceNumber < MaxMessages
  /\ ClientStep("sendMessage", Client_sendMessage(ClientNow))

\* The server's reply to a message it was sent arrives: ws.onmessage.
ServerReply ==
  \E seq \in MessageIds :
    /\ promises[seq] # "unsent"
    /\ seq \notin replied
    /\ ClientStep("reply", Client_handleMessage(ClientNow, seq))

\* The 5 s timer of a sendMessage call fires.
MessageTimeout ==
  \E seq \in MessageIds :
    /\ promises[seq] = "pending"
    /\ ClientStep("timeout", Client_messageTimeout(ClientNow, seq))

\* ============================================================================
\* ScrollingListBox (ScrollingListBox.ts): items, selection, scroll position
\* ============================================================================
VARIABLES listConfig, listItems, scrollY, maxScrollY, selectedIndex, listLast

listVars == <<listConfig, listItems, scrollY, maxScrollY, selectedIndex, listLast>>

\* The list items, by identity.
ListItems == 1..NumListItems

\* config.itemHeight and config.height: a list that scrolls from two items on, and
\* one tall enough never to scroll.
ListConfigs == {[itemHeight |-> 2, height |-> 3], [itemHeight |-> 1, height |-> 4]}

Max(a, b) == IF a > b THEN a ELSE b

\* Phaser.Math.Clamp(value, min, max) = Math.max(min, Math.min(max, value))
Clamp(value, min, max) == Max(min, Min(max, value))

ListNow ==
  [config |-> listConfig, items |-> listItems, scrollY |-> scrollY,
   maxScrollY |-> maxScrollY, selectedIndex |-> selectedIndex]

\* Math.max(0, items.length * itemHeight - height)
ListBox_maxScroll(l, items) == Max(0, Len(items) * l.config.itemHeight - l.config.height)

ListBox_setItems(l, items) ==
  [l EXCEPT !.items = items, !.maxScrollY = ListBox_maxScroll(l, items),
            !.scrollY = 0, !.selectedIndex = -1]

ListBox_addItem(l, item) ==
  [l EXCEPT !.items = Append(l.items, item),
            !.maxScrollY = ListBox_maxScroll(l, Append(l.items, item))]

\* A mutant: the selection is not moved down when an item before it is removed.
ListBox_removeItem_NoShift(l, index) ==
  IF index >= 0 /\ index < Len(l.items)
    THEN LET items == SpliceArray(l.items, index, 1, <<>>)
             max == ListBox_maxScroll(l, items)
         IN [l EXCEPT !.items = items, !.maxScrollY = max,
                      !.scrollY = IF l.scrollY > max THEN max ELSE l.scrollY,
                      !.selectedIndex = IF l.selectedIndex = index THEN -1
                                        ELSE l.selectedIndex]
    ELSE l

\* removeItem(index): splice, new maxScrollY, scrollY pulled back to it, the
\* selection dropped when it was the removed item and moved down by one when it
\* was after it.
ListBox_removeItem(l, index) ==
  IF index >= 0 /\ index < Len(l.items)
    THEN LET items == SpliceArray(l.items, index, 1, <<>>)
             max == ListBox_maxScroll(l, items)
         IN [l EXCEPT !.items = items, !.maxScrollY = max,
                      !.scrollY = IF l.scrollY > max THEN max ELSE l.scrollY,
                      !.selectedIndex = IF l.selectedIndex = index THEN -1
                                        ELSE IF l.selectedIndex > index
                                          THEN l.selectedIndex - 1
                                        ELSE l.selectedIndex]
    ELSE l

ListBox_selectItem(l, index) ==
  IF index >= 0 /\ index < Len(l.items) THEN [l EXCEPT !.selectedIndex = index] ELSE l

ListBox_clearItems(l) ==
  [l EXCEPT !.items = <<>>, !.maxScrollY = 0, !.scrollY = 0, !.selectedIndex = -1]

ListBox_scrollToItem(l, index) ==
  IF index >= 0 /\ index < Len(l.items)
    THEN [l EXCEPT !.scrollY = Clamp(index * l.config.itemHeight, 0, l.maxScrollY)]
    ELSE l

\* scroll(deltaY), from the wheel, a drag or momentum.
ListBox_scroll(l, deltaY) ==
  [l EXCEPT !.scrollY = Clamp(l.scrollY + deltaY, 0, l.maxScrollY)]

\* The last call: its name and, for removeItem, its index, the selectedIndex
\* before it and the item that was selected.
ListOp(op, index, selected, item) ==
  [op |-> op, index |-> index, selected |-> selected, item |-> item]

ListStep(op, l) ==
  /\ listItems' = l.items
  /\ scrollY' = l.scrollY
  /\ maxScrollY' = l.maxScrollY
  /\ selectedIndex' = l.selectedIndex
  /\ listLast' = op
  /\ UNCHANGED listConfig

\* new ScrollingListBox(scene, config)
ListFresh ==
  /\ listItems = <<>>
  /\ scrollY = 0
  /\ maxScrollY = 0
  /\ selectedIndex = -1
  /\ listLast = ListOp("new", -1, -1, None)

ListInit == listConfig \in ListConfigs /\ ListFresh

ListIdle == listConfig = [itemHeight |-> 2, height |-> 3] /\ ListFresh

ListClearItems == ListStep(ListOp("clearItems", -1, -1, None), ListBox_clearItems(ListNow))

ListSetItems ==
  \E items \in SeqsUpTo(ListItems, MaxSetItems) :
    ListStep(ListOp("setItems", -1, -1, None), ListBox_setItems(ListNow, items))

ListAddItem ==
  \E item \in ListItems :
    /\ Len(listItems) < MaxListItems
    /\ ListStep(ListOp("addItem", -1, -1, None), ListBox_addItem(ListNow, item))

ListRemoveItem ==
  \E index \in -1..MaxListItems :
    ListStep(ListOp("removeItem", index, selectedIndex,
                    IF selectedIndex >= 0 THEN Some(listItems[selectedIndex + 1]) ELSE None),
             ListBox_removeItem(ListNow, index))

ListSelectItem ==
  \E index \in -1..MaxListItems :
    ListStep(ListOp("selectItem", -1, -1, None), ListBox_selectItem(ListNow, index))

ListScrollToItem ==
  \E index \in -1..MaxListItems :
    ListStep(ListOp("scrollToItem", -1, -1, None), ListBox_scrollToItem(ListNow, index))

ListScroll ==
  \E deltaY \in -MaxScrollDelta..MaxScrollDelta :
    ListStep(ListOp("scroll", -1, -1, None), ListBox_scroll(ListNow, deltaY))

\* ============================================================================
\* Specifications: one per component, the other components at rest
\* ============================================================================
\* The components outside the card core, gathered.
extraVars == <<sessionVars, clientVars, listVars>>

ExtrasIdle == SessionIdle /\ ClientIdle /\ ListIdle

vars == <<pileVars, handVars, tableVars, deckVars, gameVars, animVars, extraVars>>

InitPile == PileInit /\ HandIdle /\ TableIdle /\ DeckIdle /\ GameIdle /\ AnimIdle /\ ExtrasIdle

NextPile ==
  \/ PileAddCard /\ UNCHANGED <<handVars, tableVars, deckVars, gameVars, animVars, extraVars>>
  \/ PileRemoveCard /\ UNCHANGED <<handVars, tableVars, deckVars, gameVars, animVars, extraVars>>
  \/ PileShuffle /\ UNCHANGED <<handVars, tableVars, deckVars, gameVars, animVars, extraVars>>

SpecPile == InitPile /\ [][NextPile]_vars

InitHand == HandInit /\ PileIdle /\ TableIdle /\ DeckIdle /\ GameIdle /\ AnimIdle /\ ExtrasIdle

NextHand ==
  \/ HandAddCard /\ UNCHANGED <<pileVars, tableVars, deckVars, gameVars, animVars, extraVars>>
  \/ HandAddCards /\ UNCHANGED <<pileVars, tableVars, deckVars, gameVars, animVars, extraVars>>
  \/ HandRemoveCard /\ UNCHANGED <<pileVars, tableVars, deckVars, gameVars, animVars, extraVars>>
  \/ HandRemoveCards /\ UNCHANGED <<pileVars, tableVars, deckVars, gameVars, animVars, extraVars>>
  \/ HandClear /\ UNCHANGED <<pileVars, tableVars, deckVars, gameVars, animVars, extraVars>>
  \/ HandSelectCard /\ UNCHANGED <<pileVars, tableVars, deckVars, gameVars, animVars, extraVars>>
  \/ HandDeselectCard /\ UNCHANGED <<pileVars, tableVars, deckVars, gameVars, animVars, extraVars>>
  \/ HandToggleCardSelection /\ UNCHANGED <<pileVars, tableVars, deckVars, gameVars, animVars, extraVars>>
  \/ HandClearSelection /\ UNCHANGED <<pileVars, tableVars, deckVars, gameVars, animVars, extraVars>>
  \/ HandPlayCards /\ UNCHANGED <<pileVars, tableVars, deckVars, gameVars, animVars, extraVars>>
  \/ HandPlaySelectedCards /\ UNCHANGED <<pileVars, tableVars, deckVars, gameVars, animVars, extraVars>>

SpecHand == InitHand /\ [][NextHand]_vars

InitTable == TableInit /\ PileIdle /\ HandIdle /\ DeckIdle /\ GameIdle /\ AnimIdle /\ ExtrasIdle

NextTable ==
  \/ TableRequestTransfer /\ UNCHANGED <<pileVars, handVars, deckVars, gameVars, animVars, extraVars>>

SpecTable == InitTable /\ [][NextTable]_vars

InitDraw == TableInit /\ PileIdle /\ HandIdle /\ DeckIdle /\ GameIdle /\ AnimIdle /\ ExtrasIdle

NextDraw ==
  \/ PlayerDrawCards /\ UNCHANGED <<pileVars, handVars, deckVars, gameVars, animVars, extraVars>>

SpecDraw == InitDraw /\ [][NextDraw]_vars

InitTransfer == TableInit /\ PileIdle /\ HandIdle /\ DeckIdle /\ GameIdle /\ AnimIdle /\ ExtrasIdle

NextTransfer ==
  \/ TransferRequestTransfer /\ UNCHANGED <<pileVars, handVars, deckVars, gameVars, animVars, extraVars>>
  \/ TableRequestCardTransfer /\ UNCHANGED <<pileVars, handVars, deckVars, gameVars, animVars, extraVars>>
  \/ PileTransferCardTo /\ UNCHANGED <<pileVars, handVars, deckVars, gameVars, animVars, extraVars>>
  \/ PileTransferCardsTo /\ UNCHANGED <<pileVars, handVars, deckVars, gameVars, animVars, extraVars>>

SpecTransfer == InitTransfer /\ [][NextTransfer]_vars

InitThrowing == TableInit /\ PileIdle /\ HandIdle /\ DeckIdle /\ GameIdle /\ AnimIdle /\ ExtrasIdle

NextThrowing ==
  \/ TableRequestTransferThrowing /\ UNCHANGED <<pileVars, handVars, deckVars, gameVars, animVars, extraVars>>

SpecThrowing == InitThrowing /\ [][NextThrowing]_vars

InitAddCards == PileInit /\ HandIdle /\ TableIdle /\ DeckIdle /\ GameIdle /\ AnimIdle /\ ExtrasIdle

NextAddCards ==
  \/ PileAddCards /\ UNCHANGED <<handVars, tableVars, deckVars, gameVars, animVars, extraVars>>

SpecAddCards == InitAddCards /\ [][NextAddCards]_vars

InitAdding == PileInit /\ ~pileConfig.allowDuplicates /\ HandIdle /\ TableIdle /\ DeckIdle /\ GameIdle /\ AnimIdle /\ ExtrasIdle

NextAdding ==
  \/ AddingAddCard /\ UNCHANGED <<handVars, tableVars, deckVars, gameVars, animVars, extraVars>>
  \/ AddingAddCards /\ UNCHANGED <<handVars, tableVars, deckVars, gameVars, animVars, extraVars>>

SpecAdding == InitAdding /\ [][NextAdding]_vars

InitDeck == DeckInit /\ PileIdle /\ HandIdle /\ TableIdle /\ GameIdle /\ AnimIdle /\ ExtrasIdle

NextDeck ==
  \/ DeckRemoveCard /\ UNCHANGED <<pileVars, handVars, tableVars, gameVars, animVars, extraVars>>
  \/ DeckRemoveCards /\ UNCHANGED <<pileVars, handVars, tableVars, gameVars, animVars, extraVars>>
  \/ DeckDiscard /\ UNCHANGED <<pileVars, handVars, tableVars, gameVars, animVars, extraVars>>
  \/ DeckReshuffleDiscard /\ UNCHANGED <<pileVars, handVars, tableVars, gameVars, animVars, extraVars>>
  \/ DeckReset /\ UNCHANGED <<pileVars, handVars, tableVars, gameVars, animVars, extraVars>>
  \/ DeckShuffle /\ UNCHANGED <<pileVars, handVars, tableVars, gameVars, animVars, extraVars>>

SpecDeck == InitDeck /\ [][NextDeck]_vars

OthersIdle == PileIdle /\ HandIdle /\ TableIdle /\ DeckIdle /\ AnimIdle

InitReshuffle == ReshuffleInit /\ PileIdle /\ HandIdle /\ TableIdle /\ GameIdle /\ AnimIdle /\ ExtrasIdle

NextReshuffle ==
  \/ DeckDiscard /\ UNCHANGED <<pileVars, handVars, tableVars, gameVars, animVars, extraVars>>
  \/ DeckReshuffleDiscard /\ UNCHANGED <<pileVars, handVars, tableVars, gameVars, animVars, extraVars>>
  \/ OlderDeckDiscard /\ UNCHANGED <<pileVars, handVars, tableVars, gameVars, animVars, extraVars>>
  \/ OlderDeckReshuffleDiscard /\ UNCHANGED <<pileVars, handVars, tableVars, gameVars, animVars, extraVars>>

SpecReshuffle == InitReshuffle /\ [][NextReshuffle]_vars

InitGame == GameInit /\ OthersIdle /\ ExtrasIdle

NextGame ==
  \/ TableStartGame /\ UNCHANGED <<pileVars, handVars, tableVars, deckVars, animVars, extraVars>>
  \/ TableEndGame /\ UNCHANGED <<pileVars, handVars, tableVars, deckVars, animVars, extraVars>>
  \/ TablePauseGame /\ UNCHANGED <<pileVars, handVars, tableVars, deckVars, animVars, extraVars>>
  \/ TableResumeGame /\ UNCHANGED <<pileVars, handVars, tableVars, deckVars, animVars, extraVars>>
  \/ TableSetCurrentPlayer /\ UNCHANGED <<pileVars, handVars, tableVars, deckVars, animVars, extraVars>>
  \/ TableAddPlayer /\ UNCHANGED <<pileVars, handVars, tableVars, deckVars, animVars, extraVars>>
  \/ TableRemovePlayer /\ UNCHANGED <<pileVars, handVars, tableVars, deckVars, animVars, extraVars>>
  \/ PlayerJoinTable /\ UNCHANGED <<pileVars, handVars, tableVars, deckVars, animVars, extraVars>>
  \/ PlayerLeaveTable /\ UNCHANGED <<pileVars, handVars, tableVars, deckVars, animVars, extraVars>>
  \/ PlayerDestroy /\ UNCHANGED <<pileVars, handVars, tableVars, deckVars, animVars, extraVars>>

SpecGame == InitGame /\ [][NextGame]_vars

InitRegistry == GameInit /\ OthersIdle /\ ExtrasIdle

NextRegistry ==
  \/ TableRegisterPile /\ UNCHANGED <<pileVars, handVars, tableVars, deckVars, animVars, extraVars>>
  \/ TableUnregisterPile /\ UNCHANGED <<pileVars, handVars, tableVars, deckVars, animVars, extraVars>>
  \/ TableAddPlayer /\ UNCHANGED <<pileVars, handVars, tableVars, deckVars, animVars, extraVars>>
  \/ TableRemovePlayer /\ UNCHANGED <<pileVars, handVars, tableVars, deckVars, animVars, extraVars>>
  \/ PlayerAddPile /\ UNCHANGED <<pileVars, handVars, tableVars, deckVars, animVars, extraVars>>
  \/ PlayerRemovePile /\ UNCHANGED <<pileVars, handVars, tableVars, deckVars, animVars, extraVars>>
  \/ PlayerJoinTable /\ UNCHANGED <<pileVars, handVars, tableVars, deckVars, animVars, extraVars>>
  \/ PlayerLeaveTable /\ UNCHANGED <<pileVars, handVars, tableVars, deckVars, animVars, extraVars>>

SpecRegistry == InitRegistry /\ [][NextRegistry]_vars

InitAnimation == AnimInit /\ PileIdle /\ HandIdle /\ TableIdle /\ DeckIdle /\ GameIdle /\ ExtrasIdle

NextAnimation ==
  \/ AnimRequest /\ UNCHANGED <<pileVars, handVars, tableVars, deckVars, gameVars, extraVars>>
  \/ TweenComplete /\ UNCHANGED <<pileVars, handVars, tableVars, deckVars, gameVars, extraVars>>
  \/ CancelAllAnimations /\ UNCHANGED <<pileVars, handVars, tableVars, deckVars, gameVars, extraVars>>

SpecAnimation == InitAnimation /\ [][NextAnimation]_vars

\* The card components together, for the specifications of the other components.
cardVars == <<pileVars, handVars, tableVars, deckVars, gameVars, animVars>>

CardsIdle == OthersIdle /\ GameIdle

InitSession == SessionInit /\ CardsIdle /\ ClientIdle /\ ListIdle

NextSession ==
  \/ SessionStartGame /\ UNCHANGED <<cardVars, clientVars, listVars>>
  \/ SessionNextPlayer /\ UNCHANGED <<cardVars, clientVars, listVars>>
  \/ SessionPlayCard /\ UNCHANGED <<cardVars, clientVars, listVars>>
  \/ SessionEndTurn /\ UNCHANGED <<cardVars, clientVars, listVars>>
  \/ SessionAddAIPlayer /\ UNCHANGED <<cardVars, clientVars, listVars>>
  \/ SessionPlayerJoined /\ UNCHANGED <<cardVars, clientVars, listVars>>
  \/ SessionPlayerLeft /\ UNCHANGED <<cardVars, clientVars, listVars>>
  \/ SessionGameStateSync /\ UNCHANGED <<cardVars, clientVars, listVars>>

SpecSession == InitSession /\ [][NextSession]_vars

InitReconnect == ClientInit /\ CardsIdle /\ SessionIdle /\ ListIdle

NextReconnect ==
  \/ ClientConnect /\ UNCHANGED <<cardVars, sessionVars, listVars>>
  \/ ClientConnectOpened /\ UNCHANGED <<cardVars, sessionVars, listVars>>
  \/ ClientConnectError /\ UNCHANGED <<cardVars, sessionVars, listVars>>
  \/ SocketClose /\ UNCHANGED <<cardVars, sessionVars, listVars>>
  \/ HeartbeatTick /\ UNCHANGED <<cardVars, sessionVars, listVars>>
  \/ HeartbeatFailed /\ UNCHANGED <<cardVars, sessionVars, listVars>>
  \/ ReconnectTick /\ UNCHANGED <<cardVars, sessionVars, listVars>>
  \/ ReconnectOpened /\ UNCHANGED <<cardVars, sessionVars, listVars>>
  \/ ReconnectError /\ UNCHANGED <<cardVars, sessionVars, listVars>>

SpecReconnect == InitReconnect /\ [][NextReconnect]_vars

InitMessages == ClientConnectedInit /\ CardsIdle /\ SessionIdle /\ ListIdle

NextMessages ==
  \/ ClientSendMessage /\ UNCHANGED <<cardVars, sessionVars, listVars>>
  \/ ServerReply /\ UNCHANGED <<cardVars, sessionVars, listVars>>
  \/ MessageTimeout /\ UNCHANGED <<cardVars, sessionVars, listVars>>

\* The timers of the event loop fire and the replies the server sent arrive.
SpecMessages ==
  InitMessages /\ [][NextMessages]_vars
    /\ WF_vars(ServerReply /\ UNCHANGED <<cardVars, sessionVars, listVars>>)
    /\ WF_vars(MessageTimeout /\ UNCHANGED <<cardVars, sessionVars, listVars>>)

InitList == ListInit /\ CardsIdle /\ SessionIdle /\ ClientIdle

NextList ==
  \/ ListClearItems /\ UNCHANGED <<cardVars, sessionVars, clientVars>>
  \/ ListSetItems /\ UNCHANGED <<cardVars, sessionVars, clientVars>>
  \/ ListAddItem /\ UNCHANGED <<cardVars, sessionVars, clientVars>>
  \/ ListRemoveItem /\ UNCHANGED <<cardVars, sessionVars, clientVars>>
  \/ ListSelectItem /\ UNCHANGED <<cardVars, sessionVars, clientVars>>
  \/ ListScrollToItem /\ UNCHANGED <<cardVars, sessionVars, clientVars>>
  \/ ListScroll /\ UNCHANGED <<cardVars, sessionVars, clientVars>>

SpecList == InitList /\ [][NextList]_vars

\* ============================================================================
\* Claims
\* ============================================================================

\* The cards of a pile of the table now, and the events of one type in the last call.
PileNow(p) == tablePiles[p].cards

LastEvents(type) == EventsOfType(tableLast.events, type)

\* C1 (as the specification states it): when requestTransfer(source, [c], target)
\* between two different piles returns true, c is in target and no longer in source;
\* when validation blocked it, source and target are as they were.
C1_TransferOutcome ==
  (/\ tableLast.op = "requestTransfer"
   /\ Len(tableLast.cards) = 1
   /\ tableLast.source # tableLast.target) =>
    LET c == tableLast.cards[1]
    IN /\ tableLast.ret =>
            /\ c \in Elems(PileNow(tableLast.target))
            /\ c \notin Elems(PileNow(tableLast.source))
       /\ (~tableLast.ret /\ LastEvents("table:actionBlocked") # <<>>) =>
            \A p \in PileIds : PileNow(p) = tableLast.pre[p]

\* C2 (amended): when the source has a contains method and at least one requested
\* card is not contained in it, the table emits action-blocked, requestTransfer
\* returns false, no completion event is emitted and no pile is changed.
C2_BlockedWhenMissing ==
  (/\ tableLast.op = "requestTransfer"
   /\ HasContains(tablePiles[tableLast.source].kind)
   /\ \E i \in 1..Len(tableLast.cards) :
        tableLast.cards[i] \notin Elems(tableLast.pre[tableLast.source])) =>
    /\ Len(LastEvents("table:actionBlocked")) = 1
    /\ ~tableLast.ret
    /\ LastEvents("table:completeTransfer") = <<>>
    /\ \A p \in PileIds : PileNow(p) = tableLast.pre[p]

\* C2's case: a request for two cards between two piles, one card in the source
\* (which has contains) and one not, was blocked.
C2_Witness ==
  /\ tableLast.op = "requestTransfer"
  /\ HasContains(tablePiles[tableLast.source].kind)
  /\ tableLast.source # tableLast.target
  /\ Len(tableLast.cards) = 2
  /\ tableLast.cards[1] \in Elems(tableLast.pre[tableLast.source])
  /\ tableLast.cards[2] \notin Elems(tableLast.pre[tableLast.source])
  /\ LastEvents("table:actionBlocked") # <<>>

\* C2 (as the specification states it): the same for any source, with or without a
\* contains method.
C2_Original ==
  (/\ tableLast.op = "requestTransfer"
   /\ \E i \in 1..Len(tableLast.cards) :
        tableLast.cards[i] \notin Elems(tableLast.pre[tableLast.source])) =>
    /\ Len(LastEvents("table:actionBlocked")) = 1
    /\ ~tableLast.ret
    /\ LastEvents("table:completeTransfer") = <<>>
    /\ \A p \in PileIds : PileNow(p) = tableLast.pre[p]

\* C3 (as the specification states it): a requestTransfer between two different
\* piles that returns true emits the completion event once, carrying exactly the
\* cards that left the source and arrived in the target, and every listener has been
\* handed it; one that returns false emits no completion event.
C3_CompletionEvent ==
  (tableLast.op = "requestTransfer" /\ tableLast.source # tableLast.target) =>
    LET done == LastEvents("table:completeTransfer")
        left == Elems(tableLast.pre[tableLast.source]) \ Elems(PileNow(tableLast.source))
        arrived == Elems(PileNow(tableLast.target)) \ Elems(tableLast.pre[tableLast.target])
    IN /\ tableLast.ret =>
            /\ Len(done) = 1
            /\ Elems(done[1].cards) = left
            /\ Elems(done[1].cards) = arrived
            /\ \A l \in Listeners : tableLast.received[l] = done
       /\ ~tableLast.ret => done = <<>>

\* C4: for every Pile configured with a capacity N (maxCards), size() <= N after
\* any sequence of addCard calls, and an addCard call made when the pile already
\* holds N cards returns false and leaves size() unchanged.
C4_CapacityInvariant ==
  pileConfig.maxCards # None =>
    /\ Pile_size(pileCards) <= pileConfig.maxCards[1]
    /\ (pileLast.op = "addCard" /\ Len(pileLast.pre) >= pileConfig.maxCards[1]) =>
         (~pileLast.ok /\ Pile_size(pileCards) = Len(pileLast.pre))

\* C5 (as the specification states it): after any sequence of hand operations every
\* selected card is, by id, a card currently in the hand.
C5_SelectedInHand ==
  \A i \in 1..Len(selectedCards) : selectedCards[i] \in Elems(handCards)

\* C6 (as the specification states it): after every reset() the deck holds as many
\* cards as it was seeded with, whatever was drawn or discarded before.
C6_ResetRestoresSeedCount ==
  deckLast = "reset" => LegacyPile_size(deckCards) = Len(deckSeed)

\* C7: for any card c not already in the pile for which addCard(c) succeeds, a
\* following removeCard() with no position returns c, and the pile's size and card
\* sequence are those before the addCard.
C7_AddThenRemove ==
  (/\ pileLast.op = "removeCard" /\ pileLast.pos = None
   /\ pilePrev.added
   /\ ~Pile_hasCard(pilePrev.pre, pilePrev.card[1])) =>
    /\ pileLast.out = pilePrev.card
    /\ pileCards = pilePrev.pre
    /\ Pile_size(pileCards) = Len(pilePrev.pre)

\* C7's case: a card was added on top of a pile holding other cards, then removed from the top.
C7_Witness ==
  /\ pileLast.op = "removeCard" /\ pileLast.pos = None
  /\ pilePrev.added
  /\ ~Pile_hasCard(pilePrev.pre, pilePrev.card[1])
  /\ Len(pilePrev.pre) >= 2
  /\ pileLast.out = pilePrev.card

\* C8: shuffle() never changes the multiset of card ids in the pile, whatever its
\* random swaps, and leaves the order of a pile of 0 or 1 cards unchanged.
C8_ShufflePreservesMultiset ==
  pileLast.op = "shuffle" =>
    /\ SameMultiset(pileCards, pileLast.pre)
    /\ Len(pileCards) = Len(pileLast.pre)
    /\ (Len(pileLast.pre) <= 1 => pileCards = pileLast.pre)

\* C8's case: a shuffle of three or more cards that changed their order.
C8_Witness ==
  /\ pileLast.op = "shuffle"
  /\ Len(pileLast.pre) >= 3
  /\ pileCards # pileLast.pre
  /\ pileCards[1] # pileLast.pre[1]

\* C9: for a deck seeded with the distinct cards c1..cn, the k draws made so far
\* returned cn, c(n-1), ..., c(n-k+1) in that order, and the pile is c1..c(n-k).
C9_DrawOrder ==
  (deckDrawn # None /\ Len(deckDrawn[1]) <= Len(deckSeed)) =>
    LET n == Len(deckSeed)
        k == Len(deckDrawn[1])
    IN /\ \A i \in 1..k : deckDrawn[1][i] = deckSeed[n - i + 1]
       /\ deckCards = SubSeq(deckSeed, 1, n - k)
       /\ LegacyPile_size(deckCards) = n - k

\* C9's case: three cards were seeded and two of them drawn from the top, one call
\* after the other.
C9_Witness ==
  /\ deckDrawn # None
  /\ Len(deckSeed) = 3
  /\ Len(deckDrawn[1]) = 2
  /\ deckLast = "removeCard"
  /\ deckDrawn[1] = <<deckSeed[3], deckSeed[2]>>

\* C10: in a hand with allowMultiSelect = false at most one card is selected, and
\* after a successful selectCard(Y) the selection is exactly Y.
C10_SingleSelection ==
  ~handConfig.allowMultiSelect =>
    /\ Len(selectedCards) <= 1
    /\ (handLast.op = "selectCard" /\ handLast.ret) => selectedCards = <<handLast.card[1]>>

\* C10's case: with multi-select off, a card was selected while another one was.
C10_Witness ==
  /\ ~handConfig.allowMultiSelect
  /\ handLast.op = "selectCard" /\ handLast.ret
  /\ handLast.selectedBefore = 1
  /\ Len(handCards) >= 2
  /\ selectedCards = <<handLast.card[1]>>

\* The events of one type emitted during the last call on the table or a player.
LastGameEvents(type) == SelectSeq(gameLast.events, LAMBDA e : e.type = type)

\* C11 (as the specification states it): gameState changes only from waiting to
\* active, active to paused, paused to active, and active or paused to ended; once
\* it is ended no call changes it.
C11_GameStateTransitions ==
  /\ gameState # gameLast.stateBefore =>
       <<gameLast.stateBefore, gameState>> \in
         {<<"waiting", "active">>, <<"active", "paused">>, <<"paused", "active">>,
          <<"active", "ended">>, <<"paused", "ended">>}
  /\ gameLast.stateBefore = "ended" => gameState = "ended"

\* How many times a card occurs over all the piles of the table.
RECURSIVE Occurrences(_, _)
Occurrences(card, ids) ==
  IF ids = {} THEN 0
  ELSE LET p == CHOOSE q \in ids : TRUE
       IN Count(tablePiles[p].cards, card) + Occurrences(card, ids \ {p})

\* C12: starting from piles with pairwise different cards, after any sequence of
\* requestTransfer, requestCardTransfer, transferCardTo and transferCardsTo calls
\* (a card listed twice and source = target included) every card is in at most one
\* pile and at most once in it.
C12_CardInOnePile == \A c \in TableCards : Occurrences(c, PileIds) <= 1

\* A transfer from a pile to itself, or a request listing a card twice, moved a
\* card, and a card is on the table.
C12_Witness ==
  /\ tableLast.op \in {"requestTransfer", "requestCardTransfer",
                       "transferCardTo", "transferCardsTo"}
  /\ tableLast.moved
  /\ tableLast.same \/ tableLast.twice
  /\ \E c \in TableCards : Occurrences(c, PileIds) = 1

\* C13 (as the specification states it): no pile instance is registered in the
\* table's registry under more than one key.
C13_OneKeyPerPile ==
  \A k1, k2 \in RegistryKeys :
    (k1 # k2 /\ pileRegistry[k1] # None) => pileRegistry[k1] # pileRegistry[k2]

\* C14 (as the specification states it): at most one queued animation runs at a
\* time, and queued animations start in the order they were requested.
C14_OneAnimationInOrder ==
  /\ Cardinality(animatingCards) <= 1
  /\ \A i, j \in 1..Len(animStarted) : i < j => animStarted[i] < animStarted[j]

\* C15 (as the specification states it): a setCurrentPlayer(id) call emits one
\* turn-changed event whose currentPlayer is id and whose previousPlayer is the
\* table's current player as it was before the call.
C15_TurnChangedEvent ==
  gameLast.op = "setCurrentPlayer" =>
    LET changed == LastGameEvents("table:turnChanged")
    IN /\ Len(changed) = 1
       /\ changed[1].player = gameLast.arg
       /\ changed[1].previous = gameLast.currentBefore

\* C16 (as the specification states it): when setCurrentPlayer moves the turn from
\* a joined player A to another joined player B, B emits TurnStarted and is active
\* and A emits TurnEnded and is not active when the call returns.
C16_TurnHandOver ==
  (/\ gameLast.op = "setCurrentPlayer"
   /\ gameLast.currentBefore # None
   /\ gameLast.currentBefore # gameLast.arg
   /\ {gameLast.currentBefore[1], gameLast.arg[1]} \subseteq (tablePlayers \cap playerTable)) =>
    LET a == gameLast.currentBefore[1]
        b == gameLast.arg[1]
    IN /\ playerActive[b] /\ ~playerActive[a]
       /\ \E i \in 1..Len(gameLast.events) :
            gameLast.events[i] = GameEvent("player:turnStarted", Some(b), None)
       /\ \E i \in 1..Len(gameLast.events) :
            gameLast.events[i] = GameEvent("player:turnEnded", Some(a), None)

\* C17 (as the specification states it): after playSelectedCards() succeeds on a
\* hand with k >= 1 selected cards, none of those k cards remains in the hand, the
\* hand holds k fewer cards than before, and the selection is empty.
C17_PlaySelectedRemovesAll ==
  (handLast.op = "playSelectedCards" /\ handLast.ret) =>
    /\ \A i \in 1..Len(handLast.before.selected) :
         handLast.before.selected[i] \notin Elems(handCards)
    /\ Len(handCards) = Len(handLast.before.cards) - Len(handLast.before.selected)
    /\ selectedCards = <<>>

C19_ThrowCancels ==
  (tableLast.op = "requestTransfer" /\ tableLast.thrown) =>
    /\ Len(EventsOfType(tableLast.events, "table:cancelTransfer")) = 1
    /\ Len(EventsOfType(tableLast.events, "table:completeTransfer")) = 0
    /\ tableLast.ret = FALSE
    /\ Len(PileNow(tableLast.source)) = Len(tableLast.pre) - Len(tableLast.removed)
    /\ \A c \in Elems(tableLast.removed) : c \notin Elems(PileNow(tableLast.source))

\* target.addCards threw after cards had been taken from the source.
C19_Witness ==
  /\ tableLast.op = "requestTransfer"
  /\ tableLast.thrown
  /\ tableLast.removed # <<>>
  /\ tableLast.ret = FALSE

\* The cards of a batch that pass the capacity and duplicate-id rules, each card
\* judged against the pile with the cards accepted before it.
RECURSIVE Accepted(_, _, _)
Accepted(cards, cfg, input) ==
  IF input = <<>> THEN <<>>
  ELSE IF /\ (cfg.maxCards # None /\ cfg.maxCards[1] # 0) => Len(cards) < cfg.maxCards[1]
          /\ cfg.allowDuplicates \/ Head(input) \notin Elems(cards)
         THEN <<Head(input)>> \o Accepted(Append(cards, Head(input)), cfg, Tail(input))
         ELSE Accepted(cards, cfg, Tail(input))

\* C20 (as the specification states it): addCards(cards, position) inserts exactly
\* the cards that pass the capacity and duplicate rules as one contiguous run
\* starting at position, in input order, returns them, and emits one CardsAdded
\* event followed by Changed only when a card was accepted; the event's positions
\* are the positions the accepted cards occupy in the pile.
C20_AddCardsContiguous ==
  (/\ pileLast.op = "addCards"
   /\ pileLast.pos # None => pileLast.pos[1] <= Len(pileLast.pre)) =>
    LET at == IF pileLast.pos = None THEN Len(pileLast.pre) ELSE pileLast.pos[1]
        accepted == Accepted(pileLast.pre, pileConfig, pileLast.arg)
    IN /\ pileLast.out = accepted
       /\ pileCards = SubSeq(pileLast.pre, 1, at) \o accepted
                        \o SubSeq(pileLast.pre, at + 1, Len(pileLast.pre))
       /\ pileLast.events =
            IF accepted = <<>> THEN <<>>
            ELSE <<Event("cardsAdded", accepted, [i \in 1..Len(accepted) |-> at + i - 1]),
                   Event("pileChanged", <<>>, <<>>)>>

\* C21: in a pile with allowDuplicates disabled, addCard of a card whose id is in
\* the pile returns false, emits nothing and leaves the pile as it was, and after
\* any sequence of addCard and addCards no two cards of the pile have the same id.
C21_NoDuplicateIds ==
  ~pileConfig.allowDuplicates =>
    /\ \A i, j \in 1..Len(pileCards) : i # j => pileCards[i] # pileCards[j]
    /\ (pileLast.op = "addCard" /\ pileLast.ok) => Count(pileCards, pileLast.arg[1]) = 1
    /\ (pileLast.op = "addCard" /\ ~pileLast.ok) =>
         pileLast.events = <<>> /\ pileCards = pileLast.pre

\* addCard of a card already in a pile that is not full and refuses duplicates.
C21_Witness ==
  /\ ~pileConfig.allowDuplicates
  /\ pileLast.op = "addCard"
  /\ pileLast.arg[1] \in Elems(pileLast.pre)
  /\ ~Pile_isFull(pileLast.pre, pileConfig)
  /\ ~pileLast.ok
  /\ pileCards = pileLast.pre

\* C22: reshuffleDiscard(keepTopCard) leaves the discard equal to [topCard] when
\* keepTopCard is true and the discard was not empty, and empty otherwise; every
\* other discarded card is in the main pile afterwards; the cards of main pile and
\* discard together are the same multiset as before.  (The older Deck class has no
\* argument and always keeps the top card.)
C22_ReshuffleDiscard ==
  [][deckLast' \in {"reshuffleDiscard(true)", "reshuffleDiscard(false)", "reshuffleDiscard()"} =>
       LET keepTopCard == deckLast' # "reshuffleDiscard(false)"
           topCard == Deck_getTopDiscard(deckKind, discardPile)
       IN /\ discardPile' = IF keepTopCard THEN topCard ELSE <<>>
          /\ \A c \in Cards :
               Count(deckCards', c) = Count(deckCards, c) + Count(discardPile, c)
                                        - Count(discardPile', c)
          /\ SameMultiset(deckCards' \o discardPile', deckCards \o discardPile)]_vars

\* A reshuffle kept the top discard and sent another discarded card to the main pile.
C22_Witness ==
  /\ deckLast \in {"reshuffleDiscard(true)", "reshuffleDiscard()"}
  /\ Len(discardPile) = 1
  /\ \E c \in Elems(deckCards) : c \notin Elems(deckSeed) /\ c # discardPile[1]

\* C23: while a Player is joined to a Table, every pile the player owns is
\* registered under the key playerId_pileId, whether it was added before or after
\* joinTable; after leaveTable none of the player's piles remains registered.
C23_PlayerPilesRegistered ==
  /\ \A q \in playerTable, id \in PlayerPileIds :
       playerPiles[q][id] # None =>
         pileRegistry[PlayerKey(q, "_", id)] = playerPiles[q][id]
  /\ \A q \in PlayerIds :
       (gameLast.op = "leaveTable" /\ gameLast.arg = Some(q)) =>
         \A id \in PlayerPileIds, sep \in {"_", "-"} :
           pileRegistry[PlayerKey(q, sep, id)] = None

\* C24: a 'draw' action naming a registered, non-empty source pile and a registered
\* target pile, with no cards given, moves exactly one card, the top card of the
\* source, to the target, moves no other card, and reports exactly that card in
\* the cards-drawn event.
C24_DrawMovesTop ==
  (/\ tableLast.op = "draw"
   /\ tableLast.source # tableLast.target
   /\ tableLast.pre[tableLast.source] # <<>>) =>
    LET before == tableLast.pre[tableLast.source]
        top == before[Len(before)]
    IN /\ tablePiles[tableLast.source].cards = SubSeq(before, 1, Len(before) - 1)
       /\ SameMultiset(tablePiles[tableLast.target].cards,
                       tableLast.pre[tableLast.target] \o <<top>>)
       /\ EventsOfType(tableLast.events, "player:cardsDrawn")
            = <<Event("player:cardsDrawn", <<top>>, <<>>)>>

\* C25: a requestTransfer or requestCardTransfer call that does not throw leaves
\* the cards of source and target together unchanged: every card removed from the
\* source is in the target afterwards, also when the target is at capacity or
\* refuses the card as a duplicate.
C25_TransferConserves ==
  [][tableLast'.op \in {"requestTransfer", "requestCardTransfer"} =>
       SameMultiset(tablePiles'["deck"].cards \o tablePiles'["hand"].cards,
                    tablePiles["deck"].cards \o tablePiles["hand"].cards)]_vars

\* C26: after a Player has left the Table (leaveTable or destroy), every other
\* Player still joined keeps its turn-changed listener and keeps answering: when
\* the turn is given to a joined player, that player emits TurnStarted and is active.
C26_OthersKeepTurnEvents ==
  /\ \A q \in tablePlayers \cap playerTable :
       \E i \in 1..Len(turnListeners) : turnListeners[i] = q
  /\ (/\ gameLast.op = "setCurrentPlayer"
      /\ gameLast.arg[1] \in tablePlayers \cap playerTable) =>
       /\ playerActive[gameLast.arg[1]]
       /\ \E i \in 1..Len(gameLast.events) :
            gameLast.events[i] = GameEvent("player:turnStarted", gameLast.arg, None)

\* C27: in a MultiplayerGameSession that is being played, after any sequence of
\* startGame, nextPlayer, playCard, endTurn, addAIPlayer, player-joined,
\* player-left and game-state-sync, currentPlayerIndex is a valid index into
\* players and currentTurnPlayerId is players[currentPlayerIndex].
C27_TurnHolderIsIndexed ==
  (sessionState = "playing" /\ sessionLast # "new") =>
    /\ currentPlayerIndex # NaN
    /\ currentPlayerIndex[1] >= 0
    /\ currentPlayerIndex[1] < Len(sessionPlayers)
    /\ currentTurnPlayerId = sessionPlayers[currentPlayerIndex[1] + 1]

\* C28: between losing the connection and either reconnecting or emitting
\* reconnectFailed the client makes at most config.reconnectAttempts reconnect
\* attempts, and at most one reconnect timer is running, under any interleaving of
\* socket close, heartbeat failures and timer ticks.
C28_BoundedReconnect ==
  /\ attemptsMade <= ReconnectAttempts
  /\ Cardinality(LiveTimers(ClientNow)) <= 1

\* C29: a message passed to sendMessage while connected is eventually resolved
\* with its reply once the reply with the same sequenceNumber has been received,
\* also when other replies arrive first; it does not end with 'Message timeout'.
C29_ReplyResolves ==
  \A seq \in MessageIds :
    (promises[seq] = "pending" /\ seq \in replied) ~> (promises[seq] = "resolved")

\* C30: after any sequence of setItems, addItem, removeItem, selectItem,
\* clearItems, scrollToItem and scroll input, selectedIndex is -1 or a valid index
\* into the items and 0 <= scrollY <= maxScrollY; removing an item other than the
\* selected one leaves the same item selected.
C30_ListConsistent ==
  /\ selectedIndex = -1 \/ (selectedIndex >= 0 /\ selectedIndex < Len(listItems))
  /\ 0 <= scrollY /\ scrollY <= maxScrollY
  /\ (listLast.op = "removeItem" /\ listLast.selected >= 0
        /\ listLast.index # listLast.selected) =>
       /\ selectedIndex >= 0
       /\ Some(listItems[selectedIndex + 1]) = listLast.item

\* An item before the selected one was removed while the list was scrolled to its
\* end: the selection moved down by one and scrollY was pulled back to maxScrollY.
C30_Witness ==
  /\ listLast.op = "removeItem"
  /\ listLast.index >= 0 /\ listLast.index < listLast.selected
  /\ selectedIndex = listLast.selected - 1
  /\ \E i \in 1..Len(listItems) : Some(listItems[i]) # listLast.item
  /\ maxScrollY > 0 /\ scrollY = maxScrollY

====
